---------------------------- MODULE Spec2Model ----------------------------
(***************************************************************************)
(* A model of mineflayer-replay: the ReplayPlayer scheduler, its           *)
(* world-state projection and viewer resync (server.ts), and the binary    *)
(* replay container with its varint codec and payload normalizer           *)
(* (format.ts, varint.ts, chunk.ts).                                       *)
(*                                                                         *)
(* Conventions                                                             *)
(*  - Every handler of the player is a function from a player state record *)
(*    to a player state record, translated statement by statement; the     *)
(*    actions apply a handler to the current state and commit the result.  *)
(*  - Speeds are held in tenths (playbackSpeed 1.0 is 10) and currentTime  *)
(*    in tenths of a millisecond, so that the products and quotients the   *)
(*    code computes in floating point are exact rationals here.            *)
(*  - Date.now() is read once per handler: the wall clock moves between    *)
(*    handlers (AdvanceClock), never inside one.                           *)
(***************************************************************************)
EXTENDS Integers, Sequences, FiniteSets, TLC

VARIABLES
    \* the container (format.ts)
    writer,     \* the writer object
    writers,    \* one writer of each kind, all given the same calls
    written,    \* the records writePacket accepted, in order
    closing,    \* the metadata close was given, if it was called
    readBack,   \* what a reader opened on the closed file returned
    \* the codecs (varint.ts, serializeData / deserializeData)
    codec,      \* the call made last on a codec: its arguments and its result
    \* the ReplayRecorder (recorder.ts) with the bot and the writers it made
    recorder,
    \* ReplayPlayer fields (server.ts)
    metadata, packets, clients,
    server,     \* _server: "null", or "created" by mc.createServer
    playing, currentTime, playbackSpeed, packetIndex, startRealTime,
    recentPackets, worldState, activeEntityIds, chunkMap,
    \* the environment of the player
    now,        \* Date.now()
    pending,    \* playbackLoop callbacks queued with setImmediate
    wire,       \* the frames client.write accepted, with their viewer, in order
    faulty,     \* <<viewer, frame name>> pairs whose client.write throws
    handlers,   \* viewers whose "end"/"error" listeners are registered
    joined,     \* viewers whose login has been handled
    ended,      \* viewers whose socket has ended
    events,     \* emitted events other than "error", in order
    errors,     \* context tags of the emitted "error" events, in order
    rejected,   \* the message of the error initialize() threw, "" if none
    steps,      \* what the last run of the playback loop did, step by step
    \* bookkeeping of the exploration
    ops,        \* number of control operations performed so far
    last        \* the operation performed last, and the state it started from

containerVars == <<writer, writers, written, closing, readBack, codec, recorder>>

playerVars == <<metadata, packets, clients, playing, currentTime, playbackSpeed,
                packetIndex, startRealTime, recentPackets, worldState,
                activeEntityIds, chunkMap, now, pending, wire, faulty, handlers,
                joined, ended, events, errors, server, rejected, steps, ops, last>>

vars == <<containerVars, playerVars>>

-----------------------------------------------------------------------------
(* Bounds of the exploration *)

MaxLog == 4        \* longest packet log loaded
MaxViewers == 2    \* viewer connections that may be opened
MaxNow == 3        \* last wall-clock instant explored
MaxOps == 3        \* control operations per behaviour

(* Program constants *)

SpeedScale == 10           \* playbackSpeed unit: tenths (0.1 is the least speed)
MinSpeed == 1              \* 0.1
MaxSpeed == 100            \* 10
MaxRecentPackets == 1000   \* maxRecentPackets
ProgressEvery == 100       \* packetIndex % 100

Viewers == 1..MaxViewers

-----------------------------------------------------------------------------
(* Sequence helpers *)

Range(q) == {q[i] : i \in DOMAIN q}

RECURSIVE Concat(_)
Concat(qs) == IF qs = <<>> THEN <<>> ELSE Head(qs) \o Concat(Tail(qs))

Min2(a, b) == IF a < b THEN a ELSE b
Max2(a, b) == IF a > b THEN a ELSE b

-----------------------------------------------------------------------------
(* Numbers of the container.  A timestamp or a delta is the integer         *)
(* hi * 2^28 + lo with 0 <= lo < 2^28: four 7-bit groups in lo, the bits    *)
(* from 28 up (and the sign) in hi.  JavaScript's bitwise operators work on *)
(* the low 32 bits of it.                                                   *)

Two7 == 128
Two28 == Two7 * Two7 * Two7 * Two7

Num(hi, lo) == [hi |-> hi, lo |-> lo]

Zero == Num(0, 0)

Normal(hi, lo) == Num(hi + (lo \div Two28), lo % Two28)

NumAdd(a, b) == Normal(a.hi + b.hi, a.lo + b.lo)

NumSub(a, b) == Normal(a.hi - b.hi, a.lo - b.lo)

NumLess(a, b) == a.hi < b.hi \/ (a.hi = b.hi /\ a.lo < b.lo)

-----------------------------------------------------------------------------
(* varint.ts *)

(* value >>>= 7: the low 32 bits, as unsigned, shifted right by 7 *)
UnsignedShiftRight7(value) == Num(0, (value.hi % 16) * (Two28 \div Two7) + value.lo \div Two7)

(* value & 0x7F *)
Low7(value) == value.lo % Two7

(* value >= 0x80 *)
AtLeast128(value) == value.hi > 0 \/ (value.hi = 0 /\ value.lo >= Two7)

RECURSIVE encodeVarint(_)
encodeVarint(value) ==
    IF AtLeast128(value)
    THEN <<Low7(value) + Two7>> \o encodeVarint(UnsignedShiftRight7(value))
    ELSE <<Low7(value)>>

(* A 32-bit word as its bits 0..31. *)
WordZero == [i \in 0..31 |-> 0]

Bit(n, i) == (n \div (2 ^ i)) % 2

(* (byte & 0x7F) << shift: the shift count is taken modulo 32 and the       *)
(* result keeps 32 bits.                                                    *)
ShiftLeft7(byte, shift) ==
    LET k == shift % 32
    IN  [i \in 0..31 |-> IF i >= k /\ i - k < 7 THEN Bit(byte % Two7, i - k) ELSE 0]

WordOr(a, b) == [i \in 0..31 |-> IF a[i] = 1 \/ b[i] = 1 THEN 1 ELSE 0]

RECURSIVE BitsValue(_, _, _)
BitsValue(w, from, to) ==
    IF from > to THEN 0 ELSE w[from] + 2 * BitsValue(w, from + 1, to)

(* The number a 32-bit word is as a signed integer. *)
Signed(w) == Num(BitsValue(w, 28, 31) - 16 * w[31], BitsValue(w, 0, 27))

(* The loop of decodeVarint; failed is the thrown "Unexpected end of buffer" *)
RECURSIVE DecodeLoop(_, _, _, _, _)
DecodeLoop(buffer, offset, value, shift, bytesRead) ==
    IF offset + bytesRead >= Len(buffer)
    THEN [failed |-> TRUE, value |-> Zero, bytesRead |-> bytesRead]
    ELSE LET byte == buffer[offset + bytesRead + 1]
             value1 == WordOr(value, ShiftLeft7(byte, shift))
         IN  IF byte < Two7
             THEN [failed |-> FALSE, value |-> Signed(value1), bytesRead |-> bytesRead + 1]
             ELSE DecodeLoop(buffer, offset, value1, shift + 7, bytesRead + 1)

decodeVarint(buffer, offset) == DecodeLoop(buffer, offset, WordZero, 0, 0)

-----------------------------------------------------------------------------
(* Payload trees.  Text is a sequence of character codes: 0..63 are the     *)
(* base64 alphabet in its order (A-Z a-z 0-9 + /), 64 is '=', 65 is '_'.    *)
(* A map is the sequence of its keys, in insertion order, and the sequence  *)
(* of their values.                                                         *)

Tree(t, n, s, bytes, keys, items) ==
    [t |-> t, n |-> n, s |-> s, bytes |-> bytes, keys |-> keys, items |-> items]

TNull == Tree("null", 0, <<>>, <<>>, <<>>, <<>>)
TInt(n) == Tree("int", n, <<>>, <<>>, <<>>, <<>>)
TStr(s) == Tree("str", 0, s, <<>>, <<>>, <<>>)
TBuf(bytes) == Tree("buf", 0, <<>>, bytes, <<>>, <<>>)
TArr(items) == Tree("arr", 0, <<>>, <<>>, <<>>, items)
TMap(keys, items) == Tree("map", 0, <<>>, <<>>, keys, items)

Text__type == <<65, 65, 45, 50, 41, 30>>
Text__data == <<65, 65, 29, 26, 45, 26>>
TextBuffer == <<1, 46, 31, 31, 30, 43>>

HasKey(obj, key) == \E i \in DOMAIN obj.keys : obj.keys[i] = key

Get(obj, key) == obj.items[CHOOSE i \in DOMAIN obj.keys : obj.keys[i] = key]

(* obj.toString("base64") *)
RECURSIVE Base64Encode(_)
Base64Encode(b) ==
    IF Len(b) = 0 THEN <<>>
    ELSE IF Len(b) = 1
         THEN <<b[1] \div 4, (b[1] % 4) * 16, 64, 64>>
         ELSE IF Len(b) = 2
              THEN <<b[1] \div 4, (b[1] % 4) * 16 + b[2] \div 16, (b[2] % 16) * 4, 64>>
              ELSE <<b[1] \div 4, (b[1] % 4) * 16 + b[2] \div 16,
                     (b[2] % 16) * 4 + b[3] \div 64, b[3] % 64>>
                   \o Base64Encode(SubSeq(b, 4, Len(b)))

RECURSIVE Base64Groups(_)
Base64Groups(c) ==
    IF Len(c) < 2 THEN <<>>
    ELSE IF Len(c) = 2
         THEN <<c[1] * 4 + c[2] \div 16>>
         ELSE IF Len(c) = 3
              THEN <<c[1] * 4 + c[2] \div 16, (c[2] % 16) * 16 + c[3] \div 4>>
              ELSE <<c[1] * 4 + c[2] \div 16, (c[2] % 16) * 16 + c[3] \div 4,
                     (c[3] % 4) * 64 + c[4]>>
                   \o Base64Groups(SubSeq(c, 5, Len(c)))

(* Buffer.from(text, "base64"): decoding stops at the padding, and '_' is   *)
(* read as '/'.                                                             *)
Base64Decode(text) ==
    LET stop == {i \in DOMAIN text : text[i] = 64}
        upto == IF stop = {} THEN Len(text)
                ELSE (CHOOSE i \in stop : \A j \in stop : i <= j) - 1
        body == SubSeq(text, 1, upto)
    IN  Base64Groups([i \in DOMAIN body |-> IF body[i] = 65 THEN 63 ELSE body[i]])

-----------------------------------------------------------------------------
(* chunk.ts: serializeData, deserializeData *)

RECURSIVE serializeData(_)
serializeData(obj) ==
    IF obj.t = "null" THEN obj
    ELSE IF obj.t = "buf"
         THEN TMap(<<Text__type, Text__data>>,
                   <<TStr(TextBuffer), TStr(Base64Encode(obj.bytes))>>)
         ELSE IF obj.t = "arr"
              THEN TArr([i \in DOMAIN obj.items |-> serializeData(obj.items[i])])
              ELSE IF obj.t = "map"
                   THEN TMap(obj.keys,
                             [i \in DOMAIN obj.items |-> serializeData(obj.items[i])])
                   ELSE obj

(* typeof obj === "object" && obj.__type === "Buffer"                       *)
(*     && typeof obj.__data === "string"                                    *)
IsMarkedBuffer(obj) ==
    /\ obj.t = "map"
    /\ HasKey(obj, Text__type) /\ Get(obj, Text__type) = TStr(TextBuffer)
    /\ HasKey(obj, Text__data) /\ Get(obj, Text__data).t = "str"

RECURSIVE deserializeData(_)
deserializeData(obj) ==
    IF obj.t = "null" THEN obj
    ELSE IF IsMarkedBuffer(obj)
         THEN TBuf(Base64Decode(Get(obj, Text__data).s))
         ELSE IF obj.t = "arr"
              THEN TArr([i \in DOMAIN obj.items |-> deserializeData(obj.items[i])])
              ELSE IF obj.t = "map"
                   THEN TMap(obj.keys,
                             [i \in DOMAIN obj.items |-> deserializeData(obj.items[i])])
                   ELSE IF obj.t = "buf"
                        THEN \* a Buffer is an object: its indices are copied as keys
                             TMap([i \in DOMAIN obj.bytes |-> <<52 + (i - 1)>>],
                                  [i \in DOMAIN obj.bytes |-> TInt(obj.bytes[i])])
                        ELSE obj

(* utils.ts: mapToObject (Map becomes object; the trees here hold objects)  *)
RECURSIVE mapToObject(_)
mapToObject(value) ==
    IF value.t = "arr"
    THEN TArr([i \in DOMAIN value.items |-> mapToObject(value.items[i])])
    ELSE IF value.t = "map"
         THEN TMap(value.keys, [i \in DOMAIN value.items |-> mapToObject(value.items[i])])
         ELSE value

-----------------------------------------------------------------------------
(* packer.encode / unpacker.decode: the MessagePack encodings of the trees  *)
(* used here (fixint, uint8/16/32, fixstr, bin8, fixarray, fixmap, nil).    *)

U32LE(n) == <<n % 256, (n \div 256) % 256, (n \div 65536) % 256, n \div 16777216>>

FromU32LE(b) == b[1] + 256 * b[2] + 65536 * b[3] + 16777216 * b[4]

PackStr(s) == <<160 + Len(s)>> \o s

RECURSIVE Pack(_)
Pack(v) ==
    CASE v.t = "null" -> <<192>>
      [] v.t = "int" ->
            IF v.n < 128 THEN <<v.n>>
            ELSE IF v.n < 256 THEN <<204, v.n>>
                 ELSE IF v.n < 65536 THEN <<205, v.n \div 256, v.n % 256>>
                      ELSE <<206, v.n \div 16777216, (v.n \div 65536) % 256,
                             (v.n \div 256) % 256, v.n % 256>>
      [] v.t = "str" -> PackStr(v.s)
      [] v.t = "buf" -> <<196, Len(v.bytes)>> \o v.bytes
      [] v.t = "arr" ->
            <<144 + Len(v.items)>> \o Concat([i \in DOMAIN v.items |-> Pack(v.items[i])])
      [] OTHER ->
            <<128 + Len(v.items)>>
                \o Concat([i \in DOMAIN v.items |-> PackStr(v.keys[i]) \o Pack(v.items[i])])

Unpacked(ok, tree, next) == [ok |-> ok, tree |-> tree, next |-> next]

UnpackFailed == Unpacked(FALSE, TNull, 0)

(* Unpack(b, at, want): the values of `want` consecutive encodings in b     *)
(* from position at (1-based), as an array, and the position after them.    *)
RECURSIVE Unpack(_, _, _)
Unpack(b, at, want) ==
    IF want = 0 THEN Unpacked(TRUE, TArr(<<>>), at)
    ELSE IF at > Len(b) THEN UnpackFailed
    ELSE
      LET c == b[at]
          avail(n) == at + n <= Len(b)
          one ==
            CASE c < 128 -> Unpacked(TRUE, TInt(c), at + 1)
              [] c >= 128 /\ c < 144 ->
                    LET kv == Unpack(b, at + 1, 2 * (c - 128))
                    IN  IF ~kv.ok \/ \E i \in 1..(c - 128) : kv.tree.items[2 * i - 1].t # "str"
                        THEN UnpackFailed
                        ELSE Unpacked(TRUE,
                                      TMap([i \in 1..(c - 128) |-> kv.tree.items[2 * i - 1].s],
                                           [i \in 1..(c - 128) |-> kv.tree.items[2 * i]]),
                                      kv.next)
              [] c >= 144 /\ c < 160 -> Unpack(b, at + 1, c - 144)
              [] c >= 160 /\ c < 192 ->
                    IF avail(c - 160)
                    THEN Unpacked(TRUE, TStr(SubSeq(b, at + 1, at + c - 160)), at + 1 + c - 160)
                    ELSE UnpackFailed
              [] c = 192 -> Unpacked(TRUE, TNull, at + 1)
              [] c = 196 ->
                    IF avail(1) /\ avail(1 + b[at + 1])
                    THEN Unpacked(TRUE, TBuf(SubSeq(b, at + 2, at + 1 + b[at + 1])),
                                  at + 2 + b[at + 1])
                    ELSE UnpackFailed
              [] c = 204 ->
                    IF avail(1) THEN Unpacked(TRUE, TInt(b[at + 1]), at + 2) ELSE UnpackFailed
              [] c = 205 ->
                    IF avail(2) THEN Unpacked(TRUE, TInt(b[at + 1] * 256 + b[at + 2]), at + 3)
                    ELSE UnpackFailed
              [] c = 206 ->
                    IF avail(4) /\ b[at + 1] < 128
                    THEN Unpacked(TRUE, TInt(b[at + 1] * 16777216 + b[at + 2] * 65536
                                             + b[at + 3] * 256 + b[at + 4]), at + 5)
                    ELSE UnpackFailed
              [] OTHER -> UnpackFailed
          rest == Unpack(b, one.next, want - 1)
      IN  IF ~one.ok \/ ~rest.ok THEN UnpackFailed
          ELSE Unpacked(TRUE, TArr(<<one.tree>> \o rest.tree.items), rest.next)

(* unpacker.decode(buffer): one value filling the buffer *)
Decode(b) ==
    LET r == Unpack(b, 1, 1)
    IN  IF r.ok /\ r.next = Len(b) + 1 THEN [ok |-> TRUE, tree |-> r.tree.items[1]]
        ELSE [ok |-> FALSE, tree |-> TNull]

-----------------------------------------------------------------------------
(* format.ts: the container.  A writer is the file writer ("file"), the     *)
(* memory writer ("memory") or the memory writer with a callback            *)
(* ("stream"); file is what the file or getBuffer() holds, chunks what the  *)
(* callback was given.  threw is the message of the exception the last call *)
(* raised, "" when it returned.                                             *)

MAGIC == <<77, 67, 82, 69, 80, 76, 65, 89>>
VERSION == 1

PacketNames ==
    <<"map_chunk", "map_chunk_bulk", "block_change", "multi_block_change",
      "named_entity_spawn", "spawn_entity_living", "spawn_entity",
      "entity_velocity", "entity_teleport", "entity_move_look",
      "rel_entity_move", "entity_look", "entity_head_rotation",
      "entity_destroy", "chat", "player_info", "update_sign", "explosion",
      "entity_equipment", "player_abilities", "entity_metadata">>

PACKET_IDS ==
    [name \in Range(PacketNames) |->
        CHOOSE id \in DOMAIN PacketNames : PacketNames[id] = name]

ID_TO_PACKET == [id \in DOMAIN PacketNames |-> PacketNames[id]]

PacketRecord(timestamp, name, data) ==
    [timestamp |-> timestamp, name |-> name, data |-> data]

(* A writer of either class.  kind is "file" for a BinaryReplayWriter,      *)
(* "memory" for a BinaryReplayMemoryWriter without a callback and "stream"  *)
(* for one with a callback.  file is what was written to the fs stream,     *)
(* buffers the memory writer's list of buffers, chunks the buffers its      *)
(* callback was given, threw the message of the error the last call threw.  *)
NewWriter(kind) ==
    [kind |-> kind, file |-> <<>>, buffers |-> <<>>, chunks |-> <<>>,
     bytesWritten |-> 0, packetCount |-> 0, headerWritten |-> FALSE,
     lastTimestamp |-> Zero, threw |-> ""]

WriterKinds == {"file", "memory", "stream"}

NewWriters == [kind \in WriterKinds |-> NewWriter(kind)]

Throw(w, message) == [w EXCEPT !.threw = message]

(* this.stream.write(buffer) of the file-backed writer, and a statement     *)
(* this.bytesWritten += n.                                                  *)
StreamWrite(w, buffer) == [w EXCEPT !.file = @ \o buffer]

Count(w, n) == [w EXCEPT !.bytesWritten = @ + n]

(* writeHeader without the check of headerWritten.                          *)
writeHeaderUnchecked(w) ==
    LET w1 == Count(StreamWrite(w, MAGIC), 8)
        w2 == Count(StreamWrite(w1, <<VERSION>>), 1)
    IN  [w2 EXCEPT !.headerWritten = TRUE, !.threw = ""]

(* BinaryReplayWriter *)
Writer_writeHeader(w) ==
    IF w.headerWritten THEN Throw(w, "Header already written")
    ELSE LET w1 == Count(StreamWrite(w, MAGIC), 8)
             w2 == Count(StreamWrite(w1, <<VERSION>>), 1)
         IN  [w2 EXCEPT !.headerWritten = TRUE, !.threw = ""]

(* writePacket taking the record's timestamp before it looks the name up.   *)
writePacketStampFirst(w, record) ==
    IF ~w.headerWritten THEN Throw(w, "Must write header before packets")
    ELSE LET delta == NumSub(record.timestamp, w.lastTimestamp)
             w1 == [w EXCEPT !.lastTimestamp = record.timestamp]
         IN  IF record.name \notin DOMAIN PACKET_IDS
             THEN Throw(w1, "Unknown packet name")
             ELSE LET timestampBuf == encodeVarint(delta)
                      w2 == Count(StreamWrite(w1, timestampBuf), Len(timestampBuf))
                      w3 == Count(StreamWrite(w2, <<PACKET_IDS[record.name]>>), 1)
                      dataBuf == Pack(serializeData(record.data))
                      w4 == StreamWrite(w3, U32LE(Len(dataBuf)))
                      w5 == Count(StreamWrite(w4, dataBuf), 4 + Len(dataBuf))
                  IN  [w5 EXCEPT !.packetCount = @ + 1, !.threw = ""]

Writer_writePacket(w, record) ==
    IF ~w.headerWritten THEN Throw(w, "Must write header before packets")
    ELSE IF record.name \notin DOMAIN PACKET_IDS THEN Throw(w, "Unknown packet name")
    ELSE LET delta == NumSub(record.timestamp, w.lastTimestamp)
             w1 == [w EXCEPT !.lastTimestamp = record.timestamp]
             timestampBuf == encodeVarint(delta)
             w2 == Count(StreamWrite(w1, timestampBuf), Len(timestampBuf))
             w3 == Count(StreamWrite(w2, <<PACKET_IDS[record.name]>>), 1)
             dataBuf == Pack(serializeData(record.data))
             w4 == StreamWrite(w3, U32LE(Len(dataBuf)))
             w5 == Count(StreamWrite(w4, dataBuf), 4 + Len(dataBuf))
         IN  [w5 EXCEPT !.packetCount = @ + 1, !.threw = ""]

Writer_close(w, meta) ==
    LET metadataBuf == Pack(meta)
        w1 == StreamWrite(w, metadataBuf)
        w2 == StreamWrite(w1, U32LE(Len(metadataBuf)))
    IN  [Count(w2, 4 + Len(metadataBuf)) EXCEPT !.threw = ""]

(* BinaryReplayMemoryWriter.  write(buffer) keeps the buffer, counts its     *)
(* bytes and, in stream mode, hands it to the callback.                     *)
MemoryWrite(w, buffer) ==
    [w EXCEPT !.buffers = Append(@, buffer),
              !.bytesWritten = @ + Len(buffer),
              !.chunks = IF w.kind = "stream" THEN Append(@, buffer) ELSE @]

MemoryWriter_writeHeader(w) ==
    IF w.headerWritten THEN Throw(w, "Header already written")
    ELSE [MemoryWrite(MemoryWrite(w, MAGIC), <<VERSION>>)
             EXCEPT !.headerWritten = TRUE, !.threw = ""]

MemoryWriter_writePacket(w, record) ==
    IF ~w.headerWritten THEN Throw(w, "Must write header before packets")
    ELSE IF record.name \notin DOMAIN PACKET_IDS THEN Throw(w, "Unknown packet name")
    ELSE LET delta == NumSub(record.timestamp, w.lastTimestamp)
             w1 == [w EXCEPT !.lastTimestamp = record.timestamp]
             w2 == MemoryWrite(w1, encodeVarint(delta))
             w3 == MemoryWrite(w2, <<PACKET_IDS[record.name]>>)
             dataBuf == Pack(serializeData(record.data))
             w4 == MemoryWrite(w3, U32LE(Len(dataBuf)))
             w5 == MemoryWrite(w4, dataBuf)
         IN  [w5 EXCEPT !.packetCount = @ + 1, !.threw = ""]

(* A close that writes the length of the metadata before the metadata.      *)
closeLengthFirst(w, meta) ==
    LET metadataBuf == Pack(meta)
    IN  [MemoryWrite(MemoryWrite(w, U32LE(Len(metadataBuf))), metadataBuf)
            EXCEPT !.threw = ""]

MemoryWriter_close(w, meta) ==
    LET metadataBuf == Pack(meta)
    IN  [MemoryWrite(MemoryWrite(w, metadataBuf), U32LE(Len(metadataBuf)))
            EXCEPT !.threw = ""]

MemoryWriter_getBuffer(w) == Concat(w.buffers)

(* The ReplayWriter the recorder holds is of one class or the other.        *)
ReplayWriter_writeHeader(w) ==
    IF w.kind = "file" THEN Writer_writeHeader(w) ELSE MemoryWriter_writeHeader(w)

ReplayWriter_writePacket(w, record) ==
    IF w.kind = "file" THEN Writer_writePacket(w, record)
    ELSE MemoryWriter_writePacket(w, record)

ReplayWriter_close(w, meta) ==
    IF w.kind = "file" THEN Writer_close(w, meta) ELSE MemoryWriter_close(w, meta)

(* The bytes of the container a writer produced: the file, or getBuffer().  *)
Output(w) == IF w.kind = "file" THEN w.file ELSE MemoryWriter_getBuffer(w)

(* fs.readSync(fd, buffer, 0, length, position) into a fresh allocUnsafe    *)
(* buffer: the bytes past the end of the file keep what the allocation      *)
(* held, here the byte g.  The files read here are closed ones, so          *)
(* position is never negative.                                              *)
ReadSync(file, position, length, g) ==
    [i \in 1..length |-> IF position + i <= Len(file) THEN file[position + i] ELSE g]

(* What a read gave: the error thrown or "ok", the metadata and the records *)
(* yielded; cut is the number of bytes the file read had lost (0 for the    *)
(* file as it was written).                                                 *)
ReadResult(status, meta, pkts) ==
    [status |-> status, metadata |-> meta, packets |-> pkts, cut |-> 0]

(* No call has been made on a codec. *)
NoCall == [op |-> "none"]

NotRead == ReadResult("none", TNull, <<>>)

RECURSIVE ReadLoop(_, _, _, _, _, _, _)
ReadLoop(file, g, meta, position, dataEndOffset, currentTimestamp, out) ==
    IF ~(position < dataEndOffset) \/ Len(file) - position <= 0
    THEN ReadResult("ok", meta, out)
    ELSE
      LET varint == decodeVarint(ReadSync(file, position, 5, g), 0)
          position1 == position + varint.bytesRead
          timestamp == NumAdd(currentTimestamp, varint.value)
          packetId == ReadSync(file, position1, 1, g)[1]
          position2 == position1 + 1
          dataLength == FromU32LE(ReadSync(file, position2, 4, g))
          position3 == position2 + 4
          decoded == Decode(ReadSync(file, position3, dataLength, g))
      IN  IF varint.failed THEN ReadResult("Unexpected end of buffer", meta, out)
          ELSE IF packetId \notin DOMAIN ID_TO_PACKET
               THEN ReadResult("Unknown packet ID", meta, out)
               ELSE IF ~decoded.ok THEN ReadResult("decode failed", meta, out)
                    ELSE ReadLoop(file, g, meta, position3 + dataLength, dataEndOffset,
                                  timestamp,
                                  Append(out, PacketRecord(timestamp, ID_TO_PACKET[packetId],
                                                           deserializeData(decoded.tree))))

(* open() (readHeader, readMetadata), then readPackets() to its end and     *)
(* getMetadata().                                                           *)
Reader_read(file, g) ==
    LET fileSize == Len(file)
        metadataLength == FromU32LE(ReadSync(file, fileSize - 4, 4, g))
        decoded == Decode(ReadSync(file, fileSize - 4 - metadataLength, metadataLength, g))
    IN  IF ReadSync(file, 0, 8, g) # MAGIC
        THEN ReadResult("Invalid replay file - bad magic", TNull, <<>>)
        ELSE IF ReadSync(file, 8, 1, g)[1] # VERSION
             THEN ReadResult("Unsupported replay file version", TNull, <<>>)
             ELSE IF fileSize - 4 - metadataLength < 0 \/ ~decoded.ok
                  THEN ReadResult("decode failed", TNull, <<>>)
                  ELSE ReadLoop(file, g, mapToObject(decoded.tree), 9,
                                fileSize - 4 - metadataLength, Zero, <<>>)

-----------------------------------------------------------------------------
(* Packet records.  A payload field the code tests against undefined is a   *)
(* set holding at most one value; entityIds is the array (absent = empty).  *)
(* seq stands for the rest of the payload and tells equal-looking records   *)
(* apart.                                                                   *)

Data(entityId, entityIds, x, z, seq) ==
    [entityId |-> entityId, entityIds |-> entityIds, x |-> x, z |-> z, seq |-> seq]

Rec(ts, name, data) == [timestamp |-> ts, name |-> name, data |-> data]

(* The recorded session the logs are cut from: record k of a session that   *)
(* repeats over six packets, two to a millisecond from millisecond 1.       *)
MasterPacket(k) ==
    LET j == (k - 1) % 6
        ts == (k + 1) \div 2
    IN  CASE j = 0 -> Rec(ts, "map_chunk", Data({}, <<>>, {0}, {0}, k))
          [] j = 1 -> Rec(ts, "named_entity_spawn", Data({42}, <<>>, {}, {}, k))
          [] j = 2 -> Rec(ts, "entity_destroy", Data({}, <<42>>, {}, {}, k))
          [] j = 3 -> Rec(ts, "map_chunk", Data({}, <<>>, {0}, {0}, k))
          [] j = 4 -> Rec(ts, "spawn_entity", Data({99}, <<>>, {}, {}, k))
          [] OTHER -> Rec(ts, "chat", Data({}, <<>>, {}, {}, k))

(* A second session: bulk chunks, the player roster and a second chunk.     *)
RosterPacket(k) ==
    LET j == (k - 1) % 4
        ts == k \div 2
    IN  CASE j = 0 -> Rec(ts, "map_chunk_bulk", Data({}, <<>>, {}, {}, k))
          [] j = 1 -> Rec(ts, "player_info", Data({}, <<>>, {}, {}, k))
          [] j = 2 -> Rec(ts, "spawn_entity_living", Data({7}, <<>>, {}, {}, k))
          [] OTHER -> Rec(ts, "map_chunk", Data({}, <<>>, {0}, {1}, k))

Logs ==
    {[k \in 1..n |-> MasterPacket(k)] : n \in 0..MaxLog}
    \cup {[k \in 1..n |-> RosterPacket(k)] : n \in {MaxLog}}

LastTimestamp(log) == IF log = <<>> THEN 0 ELSE log[Len(log)].timestamp

SpawnPosition == [x |-> 0, y |-> 64, z |-> 0]

(* Metadata as the recorder writes it: endTime is taken after the last      *)
(* packet, so the duration is at least the last timestamp.                  *)
MetadataFor(log, slack) ==
    [spawnPosition |-> {SpawnPosition}, startTime |-> 0,
     endTime |-> LastTimestamp(log) + slack]

-----------------------------------------------------------------------------
(* The player state as one record, so that handlers compose as functions.   *)

State ==
    [metadata |-> metadata, packets |-> packets, clients |-> clients,
     playing |-> playing, currentTime |-> currentTime,
     playbackSpeed |-> playbackSpeed, packetIndex |-> packetIndex,
     startRealTime |-> startRealTime, recentPackets |-> recentPackets,
     worldState |-> worldState, activeEntityIds |-> activeEntityIds,
     chunkMap |-> chunkMap, now |-> now, pending |-> pending, wire |-> wire,
     faulty |-> faulty, handlers |-> handlers, joined |-> joined,
     ended |-> ended,
     events |-> events, errors |-> errors, server |-> server,
     rejected |-> rejected, steps |-> steps]

Commit(s) ==
    /\ metadata' = s.metadata
    /\ packets' = s.packets
    /\ clients' = s.clients
    /\ playing' = s.playing
    /\ currentTime' = s.currentTime
    /\ playbackSpeed' = s.playbackSpeed
    /\ packetIndex' = s.packetIndex
    /\ startRealTime' = s.startRealTime
    /\ recentPackets' = s.recentPackets
    /\ worldState' = s.worldState
    /\ activeEntityIds' = s.activeEntityIds
    /\ chunkMap' = s.chunkMap
    /\ now' = s.now
    /\ pending' = s.pending
    /\ wire' = s.wire
    /\ faulty' = s.faulty
    /\ handlers' = s.handlers
    /\ joined' = s.joined
    /\ ended' = s.ended
    /\ events' = s.events
    /\ errors' = s.errors
    /\ server' = s.server
    /\ rejected' = s.rejected
    /\ steps' = s.steps
    /\ UNCHANGED containerVars

Event(name, a, b, c) == [name |-> name, a |-> a, b |-> b, c |-> c]

Emit(s, e) == [s EXCEPT !.events = Append(@, e)]

EmitError(s, tag) == [s EXCEPT !.errors = Append(@, tag)]

-----------------------------------------------------------------------------
(* World-state projection: ReplayPlayer.trackWorldStatePacket               *)

SpawnNames == {"named_entity_spawn", "spawn_entity_living", "spawn_entity"}

StatePacketTypes == SpawnNames \cup {"player_info"}

WorldStateKeys == StatePacketTypes \cup {"map_chunk_bulk"}

EmptyWorldState == [n \in WorldStateKeys |-> <<>>]

ChunkKey(data) == <<CHOOSE x \in data.x : TRUE, CHOOSE z \in data.z : TRUE>>

(* Map.set on a Map kept as its entries in insertion order: a key already   *)
(* present keeps its place and takes the new value.                         *)
MapSet(entries, key, value) ==
    IF \E i \in DOMAIN entries : entries[i].key = key
    THEN [i \in DOMAIN entries |->
            IF entries[i].key = key THEN [key |-> key, value |-> value]
            ELSE entries[i]]
    ELSE Append(entries, [key |-> key, value |-> value])

MapValues(entries) == [i \in DOMAIN entries |-> entries[i].value]

trackWorldStatePacket(s, packet) ==
    LET ids == IF packet.name \in SpawnNames
               THEN IF packet.data.entityId # {}
                    THEN s.activeEntityIds \cup packet.data.entityId
                    ELSE s.activeEntityIds
               ELSE IF packet.name = "entity_destroy"
                    THEN s.activeEntityIds \ Range(packet.data.entityIds)
                    ELSE s.activeEntityIds
        isChunk == packet.name = "map_chunk" /\ packet.data.x # {} /\ packet.data.z # {}
        cm == IF isChunk THEN MapSet(s.chunkMap, ChunkKey(packet.data), packet)
              ELSE s.chunkMap
        ws1 == IF ~isChunk /\ packet.name = "map_chunk_bulk"
               THEN [s.worldState EXCEPT !["map_chunk_bulk"] = Append(@, packet)]
               ELSE s.worldState
        ws2 == IF packet.name \in StatePacketTypes
               THEN [ws1 EXCEPT ![packet.name] = Append(@, packet)]
               ELSE ws1
    IN  [s EXCEPT !.activeEntityIds = ids, !.chunkMap = cm, !.worldState = ws2]

-----------------------------------------------------------------------------
(* Writing to a viewer's sink: client.write(name, data)                     *)

(* via is not sent: it records which code path wrote the frame.             *)
Frame(name, data, via) == [name |-> name, data |-> data, via |-> via]

WriteThrows(s, v, name) == <<v, name>> \in s.faulty

ClientWrite(s, v, frame) == [s EXCEPT !.wire = Append(@, [to |-> v, frame |-> frame])]

(* One try block holding several writes: the first write that throws skips  *)
(* the rest of the block.                                                   *)
RECURSIVE WriteBlock(_, _, _)
WriteBlock(s, v, frames) ==
    IF frames = <<>> THEN [state |-> s, threw |-> FALSE]
    ELSE IF WriteThrows(s, v, Head(frames).name)
         THEN [state |-> s, threw |-> TRUE]
         ELSE WriteBlock(ClientWrite(s, v, Head(frames)), v, Tail(frames))

(* A step of the playback loop on the packet at the cursor: the packet is   *)
(* applied to the projection ("apply"), written to the viewer to ("emit")   *)
(* or passed by the cursor ("advance").                                     *)
Step(s, kind, to) ==
    [s EXCEPT !.steps = Append(@, [step |-> kind, index |-> s.packetIndex, to |-> to])]

(* A loop whose body is try { client.write } catch { emit error }, over the  *)
(* packets from..to of pkts.  The iterations run in order, first those of   *)
(* the lower half and then those of the upper half, which keeps the nesting *)
(* of the evaluation shallow for a list as long as the ring; the test on    *)
(* the lower half, which always holds, has it evaluated before the upper    *)
(* half is entered.                                                         *)
RECURSIVE WriteRun(_, _, _, _, _, _, _)
WriteRun(s, v, pkts, from, to, via, tagPrefix) ==
    IF from > to THEN s
    ELSE IF from = to
         THEN LET p == pkts[from]
              IN  IF WriteThrows(s, v, p.name)
                  THEN EmitError(s, <<tagPrefix, p.name>>)
                  ELSE ClientWrite(s, v, Frame(p.name, p.data, via))
         ELSE LET mid == (from + to) \div 2
                  lower == WriteRun(s, v, pkts, from, mid, via, tagPrefix)
              IN  IF Len(lower.wire) >= Len(s.wire)
                  THEN WriteRun(lower, v, pkts, mid + 1, to, via, tagPrefix)
                  ELSE lower

WriteEach(s, v, pkts, via, tagPrefix) ==
    WriteRun(s, v, pkts, 1, Len(pkts), via, tagPrefix)

RespawnFrame(dimension, via) ==
    Frame("respawn", [dimension |-> dimension, difficulty |-> 2, gamemode |-> 3], via)

SpawnFrames(s, via) ==
    IF s.metadata.spawnPosition # {}
    THEN LET pos == CHOOSE q \in s.metadata.spawnPosition : TRUE
         IN  << Frame("spawn_position", [location |-> pos], via),
                Frame("position", [x |-> pos.x, y |-> pos.y, z |-> pos.z,
                                   yaw |-> 0, pitch |-> 0, flags |-> 0], via) >>
    ELSE <<>>

-----------------------------------------------------------------------------
(* ReplayPlayer.syncClientToCurrentState                                    *)

EntitySpawnPackets(s) ==
    s.worldState["named_entity_spawn"] \o s.worldState["spawn_entity_living"]
        \o s.worldState["spawn_entity"]

(* A resync that replays the ring before the entity spawns. *)
syncRingBeforeEntities(s, v, clearEntities) ==
    LET sw == IF clearEntities
              THEN WriteBlock(s, v, <<RespawnFrame(-1, "sync"), RespawnFrame(0, "sync")>>
                                     \o SpawnFrames(s, "sync"))
              ELSE [state |-> s, threw |-> FALSE]
        s1 == IF sw.threw THEN EmitError(sw.state, <<"dimension_switch", "">>)
              ELSE sw.state
        s2 == WriteEach(s1, v, MapValues(s.chunkMap) \o s.worldState["map_chunk_bulk"],
                        "sync", "sync")
        s3 == WriteEach(s2, v, s.worldState["player_info"], "sync", "sync")
        s4 == IF ~clearEntities THEN WriteEach(s3, v, s.recentPackets, "sync", "sync")
              ELSE s3
    IN  WriteEach(s4, v, EntitySpawnPackets(s), "sync", "sync")

syncClientToCurrentState(s, v, clearEntities) ==
    LET sw == IF clearEntities
              THEN WriteBlock(s, v, <<RespawnFrame(-1, "sync"), RespawnFrame(0, "sync")>>
                                     \o SpawnFrames(s, "sync"))
              ELSE [state |-> s, threw |-> FALSE]
        s1 == IF sw.threw THEN EmitError(sw.state, <<"dimension_switch", "">>)
              ELSE sw.state
        s2 == WriteEach(s1, v, MapValues(s.chunkMap) \o s.worldState["map_chunk_bulk"],
                        "sync", "sync")
        s3 == WriteEach(s2, v, s.worldState["player_info"], "sync", "sync")
        s4 == WriteEach(s3, v, EntitySpawnPackets(s), "sync", "sync")
    IN  IF ~clearEntities THEN WriteEach(s4, v, s.recentPackets, "sync", "sync")
        ELSE s4

-----------------------------------------------------------------------------
(* The scheduler: ReplayPlayer.replayPacket, playbackLoop, startPlayback,   *)
(* pausePlayback, setPlaybackSpeed, seekToTime                              *)

(* startRealTime = Date.now() - currentTime / playbackSpeed is kept as the  *)
(* pair (Date.now(), currentTime) it was computed from.  It is only read by *)
(* playbackLoop while playing, and every change of playbackSpeed while      *)
(* playing recomputes it, so the speed it was divided by is the speed it is *)
(* multiplied with:                                                         *)
(*   (now - startRealTime) * playbackSpeed                                  *)
(*      = (now - wall) * playbackSpeed + virt.                              *)
Anchor(wall, virt) == [wall |-> wall, virt |-> virt]

RealElapsed(s) ==
    (s.now - s.startRealTime.wall) * s.playbackSpeed + s.startRealTime.virt

(* packet.timestamp > this.currentTime, with currentTime in tenths *)
After(packet, time) == packet.timestamp * SpeedScale > time

(* replayPacket's ring without the shift: it only grows.                    *)
PushWithoutShift(ring, packet) == Append(ring, packet)


Push(ring, packet) ==
    LET pushed == Append(ring, packet)
    IN  IF Len(pushed) > MaxRecentPackets THEN Tail(pushed) ELSE pushed

(* A broadcast that the first failing write ends. *)
RECURSIVE SendUntilFailure(_, _, _)
SendUntilFailure(s, cs, packet) ==
    IF cs = <<>> THEN s
    ELSE IF WriteThrows(s, Head(cs), packet.name)
         THEN EmitError(s, <<"packet_replay", packet.name>>)
         ELSE SendUntilFailure(ClientWrite(s, Head(cs), Frame(packet.name, packet.data, "live")),
                               Tail(cs), packet)

(* A broadcast that reaches the first session only. *)
SendToFirst(s, cs, packet) ==
    IF cs = <<>> THEN s
    ELSE IF WriteThrows(s, Head(cs), packet.name)
         THEN EmitError(s, <<"packet_replay", packet.name>>)
         ELSE ClientWrite(s, Head(cs), Frame(packet.name, packet.data, "live"))

RECURSIVE SendToClients(_, _, _)
SendToClients(s, cs, packet) ==
    IF cs = <<>> THEN s
    ELSE LET v == Head(cs)
             s0 == Step(s, "emit", v)
             s1 == IF WriteThrows(s0, v, packet.name)
                   THEN EmitError(s0, <<"packet_replay", packet.name>>)
                   ELSE ClientWrite(s0, v, Frame(packet.name, packet.data, "live"))
         IN  SendToClients(s1, Tail(cs), packet)

(* What replayPacket does to the projection before it emits: the ring push *)
(* and trackWorldStatePacket.                                               *)
Project(s, packet) ==
    trackWorldStatePacket([s EXCEPT !.recentPackets = Push(@, packet)], packet)

(* A replayPacket that writes to the viewers before it tracks the packet.   *)
replayPacketEmitFirst(s, packet) ==
    Step(Project(SendToClients(s, s.clients, packet), packet), "apply", 0)

replayPacket(s, packet) ==
    LET s2 == Step(Project(s, packet), "apply", 0)
    IN  SendToClients(s2, s2.clients, packet)

(* The JS index of the first packet of pkts[from..to-1] that is after time, *)
(* or to when there is none: where a loop over the packets that breaks at   *)
(* the first later packet stops.                                            *)
RECURSIVE FirstAfter(_, _, _, _)
FirstAfter(pkts, from, to, time) ==
    IF from >= to THEN to
    ELSE IF to = from + 1
         THEN IF After(pkts[from + 1], time) THEN from ELSE to
         ELSE LET mid == (from + to) \div 2
                  lower == FirstAfter(pkts, from, mid, time)
              IN  IF lower < mid THEN lower ELSE FirstAfter(pkts, mid, to, time)

(* The body of playbackLoop's while loop, replayPacket and packetIndex++,    *)
(* for the packets of JS indices from..to-1 in order, the lower half first  *)
(* (the test on it always holds).                                           *)
RECURSIVE ReplayRun(_, _, _)
ReplayRun(s, from, to) ==
    IF from >= to THEN s
    ELSE IF to = from + 1
         THEN [Step(replayPacket(s, s.packets[from + 1]), "advance", 0)
                  EXCEPT !.packetIndex = @ + 1]
         ELSE LET mid == (from + to) \div 2
                  lower == ReplayRun(s, from, mid)
              IN  IF lower.packetIndex = s.packetIndex + (mid - from)
                  THEN ReplayRun(lower, mid, to)
                  ELSE lower

(* The while loop of playbackLoop; the result carries packetsProcessed.     *)
(* Its condition reads packets and currentTime, which its body leaves as    *)
(* they are, so the loop stops where FirstAfter says.                       *)
ReplayDue(s, processed) ==
    LET stop == FirstAfter(s.packets, s.packetIndex, Len(s.packets), s.currentTime)
    IN  IF s.packetIndex < stop
        THEN [state |-> ReplayRun(s, s.packetIndex, stop),
              processed |-> processed + (stop - s.packetIndex)]
        ELSE [state |-> s, processed |-> processed]

(* A loop that never queues itself again. *)
playbackLoopOnce(s) ==
    IF ~s.playing THEN s
    ELSE LET s1 == [s EXCEPT !.currentTime = RealElapsed(s), !.steps = <<>>]
             s2 == ReplayDue(s1, 0).state
         IN  IF s2.packetIndex >= Len(s2.packets)
             THEN Emit([s2 EXCEPT !.playing = FALSE], Event("playback:end", 0, 0, 0))
             ELSE s2

(* A loop that does not look at playing.                                    *)
playbackLoopAlways(s) ==
    LET s1 == [s EXCEPT !.currentTime = RealElapsed(s), !.steps = <<>>]
        due == ReplayDue(s1, 0)
        s2 == due.state
        s3 == IF due.processed > 0 /\ s2.packetIndex % ProgressEvery = 0
              THEN Emit(s2, Event("playback:progress", s2.packetIndex,
                                  Len(s2.packets), s2.currentTime))
              ELSE s2
    IN  IF s3.packetIndex >= Len(s3.packets)
        THEN Emit([s3 EXCEPT !.playing = FALSE], Event("playback:end", 0, 0, 0))
        ELSE [s3 EXCEPT !.pending = @ + 1]

playbackLoop(s) ==
    IF ~s.playing THEN s
    ELSE LET s1 == [s EXCEPT !.currentTime = RealElapsed(s), !.steps = <<>>]
             due == ReplayDue(s1, 0)
             s2 == due.state
             s3 == IF due.processed > 0 /\ s2.packetIndex % ProgressEvery = 0
                   THEN Emit(s2, Event("playback:progress", s2.packetIndex,
                                       Len(s2.packets), s2.currentTime))
                   ELSE s2
         IN  IF s3.packetIndex >= Len(s3.packets)
             THEN Emit([s3 EXCEPT !.playing = FALSE], Event("playback:end", 0, 0, 0))
             ELSE [s3 EXCEPT !.pending = @ + 1]

(* startPlayback without computing the anchor anew.                         *)
startKeepingAnchor(s) ==
    IF s.playing THEN s
    ELSE LET s1 == [s EXCEPT !.playing = TRUE]
         IN  playbackLoop(Emit(s1, Event("playback:start", s1.currentTime, 0, 0)))


startPlayback(s) ==
    IF s.playing THEN s
    ELSE LET s1 == [s EXCEPT !.playing = TRUE,
                             !.startRealTime = Anchor(s.now, s.currentTime)]
         IN  playbackLoop(Emit(s1, Event("playback:start", s1.currentTime, 0, 0)))

(* pausePlayback without its early return.                                  *)
pauseAlways(s) ==
    Emit([s EXCEPT !.playing = FALSE], Event("playback:pause", s.currentTime, 0, 0))


pausePlayback(s) ==
    IF ~s.playing THEN s
    ELSE Emit([s EXCEPT !.playing = FALSE], Event("playback:pause", s.currentTime, 0, 0))

(* A clamp that forgets the lower limit.                                    *)
ClampAbove(lo, hi, x) == Min2(hi, x)


Clamp(lo, hi, x) == Max2(lo, Min2(hi, x))

setPlaybackSpeed(s, speed) ==
    LET wasPlaying == s.playing
        s1 == IF wasPlaying THEN pausePlayback(s) ELSE s
        s2 == [s1 EXCEPT !.playbackSpeed = Clamp(MinSpeed, MaxSpeed, speed)]
        s3 == Emit(s2, Event("playback:speed", s2.playbackSpeed, speed, 0))
    IN  IF wasPlaying THEN startPlayback(s3) ELSE s3

(* trackWorldStatePacket for the packets of JS indices from..to-1 in order, *)
(* the lower half first (the test on it always holds).                      *)
RECURSIVE TrackRun(_, _, _)
TrackRun(s, from, to) ==
    IF from >= to THEN s
    ELSE IF to = from + 1
         THEN trackWorldStatePacket(s, s.packets[from + 1])
         ELSE LET mid == (from + to) \div 2
                  lower == TrackRun(s, from, mid)
              IN  IF lower.packetIndex = s.packetIndex
                  THEN TrackRun(lower, mid, to)
                  ELSE lower

(* The scan of seekToTime from JS index i, newIndex being 0 so far: every   *)
(* packet before the first one later than targetTime is tracked; newIndex   *)
(* is set at that packet, and stays 0 when the scan meets none.             *)
SeekScan(s, i, targetTime) ==
    LET stop == FirstAfter(s.packets, i, Len(s.packets), targetTime * SpeedScale)
    IN  [state |-> TrackRun(s, i, stop),
         newIndex |-> IF stop < Len(s.packets) THEN stop ELSE 0]

RECURSIVE SyncClients(_, _)
SyncClients(s, cs) ==
    IF cs = <<>> THEN s
    ELSE SyncClients(syncClientToCurrentState(s, Head(cs), TRUE), Tail(cs))

MaxTime(s) == s.metadata.endTime - s.metadata.startTime

(* A seek that pauses and does not start again. *)
seekAndStayPaused(s, requested) ==
    LET fromTime == s.currentTime
        s1 == IF s.playing THEN pausePlayback(s) ELSE s
        targetTime == Clamp(0, MaxTime(s), requested)
        s2 == [s1 EXCEPT !.currentTime = targetTime * SpeedScale,
                         !.recentPackets = <<>>,
                         !.worldState = EmptyWorldState,
                         !.activeEntityIds = {},
                         !.chunkMap = <<>>]
        scan == SeekScan(s2, 0, targetTime)
        s3 == [scan.state EXCEPT !.packetIndex = scan.newIndex]
        s4 == Emit(s3, Event("playback:seek", fromTime, targetTime * SpeedScale, 0))
    IN  SyncClients(s4, s4.clients)

seekToTime(s, requested) ==
    LET wasPlaying == s.playing
        fromTime == s.currentTime
        s1 == IF wasPlaying THEN pausePlayback(s) ELSE s
        targetTime == Clamp(0, MaxTime(s), requested)
        s2 == [s1 EXCEPT !.currentTime = targetTime * SpeedScale,
                         !.recentPackets = <<>>,
                         !.worldState = EmptyWorldState,
                         !.activeEntityIds = {},
                         !.chunkMap = <<>>]
        scan == SeekScan(s2, 0, targetTime)
        s3 == [scan.state EXCEPT !.packetIndex = scan.newIndex]
        s4 == Emit(s3, Event("playback:seek", fromTime, targetTime * SpeedScale, 0))
        s5 == SyncClients(s4, s4.clients)
    IN  IF wasPlaying THEN startPlayback(s5) ELSE s5

-----------------------------------------------------------------------------
(* ReplayPlayer.initialize.  The file at filePath is absent or holds a      *)
(* magic, a version byte, a packet stream and a metadata block.             *)

ReplayFile(label, exists, magic, version, log) ==
    [label |-> label, exists |-> exists, magic |-> magic, version |-> version,
     packets |-> log, metadata |-> MetadataFor(log, 0)]

Reject(s, message) ==
    [EmitError(s, <<"replay_initialization", "">>) EXCEPT !.rejected = message]

(* initialize with mc.createServer and setupServer ahead of the reader.     *)
initializeServerFirst(s, file) ==
    LET s0 == [s EXCEPT !.server = "created"]
    IN  IF ~file.exists
        THEN Reject(EmitError(s0, <<"replay_initialization", "">>),
                    "Replay file does not exist")
        ELSE IF file.magic # MAGIC THEN Reject(s0, "Invalid replay file - bad magic")
        ELSE IF file.version # VERSION THEN Reject(s0, "Unsupported replay file version")
        ELSE Emit([s0 EXCEPT !.metadata = file.metadata, !.packets = file.packets],
                  Event("replay:loaded", Len(file.packets), 0, 0))

(* The missing file is reported inside the try block and thrown; the catch  *)
(* block reports what was thrown, that error as well, and throws it on.     *)
(* reader.open() throws on the magic and on the version (readHeader).       *)
initialize(s, file) ==
    IF ~file.exists
    THEN Reject(EmitError(s, <<"replay_initialization", "">>),
                "Replay file does not exist")
    ELSE IF file.magic # MAGIC THEN Reject(s, "Invalid replay file - bad magic")
    ELSE IF file.version # VERSION THEN Reject(s, "Unsupported replay file version")
    ELSE LET s1 == [s EXCEPT !.metadata = file.metadata, !.packets = file.packets]
             s2 == Emit(s1, Event("replay:loaded", Len(s1.packets), 0, 0))
         IN  [s2 EXCEPT !.server = "created"]

-----------------------------------------------------------------------------
(* Viewer sessions: ReplayPlayer.handleClientLogin and the listeners it     *)
(* registers                                                                *)

LoginFrame(v) ==
    Frame("login", [entityId |-> v, gameMode |-> 3, dimension |-> 0], "handshake")

ClientsSet(cs, v) == IF v \in Range(cs) THEN cs ELSE Append(cs, v)

ClientsDelete(cs, v) == SelectSeq(cs, LAMBDA c : c # v)

(* A login that starts the replay over for the newcomer.                    *)
handleClientLoginRewinding(s, v) ==
    LET s1 == Emit([s EXCEPT !.clients = ClientsSet(@, v), !.joined = @ \cup {v}],
                   Event("viewer:join", v, 0, 0))
        hs == WriteBlock(s1, v, <<LoginFrame(v)>> \o SpawnFrames(s1, "handshake"))
    IN  IF hs.threw THEN EmitError(hs.state, <<"client_login", "">>)
        ELSE LET s2 == IF hs.state.playing
                       THEN syncClientToCurrentState(hs.state, v, FALSE)
                       ELSE hs.state
             IN  [s2 EXCEPT !.handlers = @ \cup {v}, !.packetIndex = 0]

handleClientLogin(s, v) ==
    LET s1 == Emit([s EXCEPT !.clients = ClientsSet(@, v), !.joined = @ \cup {v}],
                   Event("viewer:join", v, 0, 0))
        hs == WriteBlock(s1, v, <<LoginFrame(v)>> \o SpawnFrames(s1, "handshake"))
    IN  IF hs.threw THEN EmitError(hs.state, <<"client_login", "">>)
        ELSE LET s2 == IF hs.state.playing
                       THEN syncClientToCurrentState(hs.state, v, FALSE)
                       ELSE hs.state
             IN  [s2 EXCEPT !.handlers = @ \cup {v}]

(* The socket of v ends: the "end" listener runs if it was registered.      *)
onClientEnd(s, v) ==
    LET s1 == [s EXCEPT !.ended = @ \cup {v}]
    IN  IF v \in s.handlers
        THEN [Emit(s1, Event("viewer:leave", v, 0, 0)) EXCEPT
                !.clients = ClientsDelete(@, v)]
        ELSE s1

(* The "error" listener of the socket of v, if it was registered.           *)
onClientError(s, v) ==
    IF v \in s.handlers
    THEN [EmitError(s, <<"client_connection", "">>) EXCEPT
            !.clients = ClientsDelete(@, v)]
    ELSE s

(* try { client.end(reason) } catch { }: the viewer is sent the reason and  *)
(* its socket is closed, or the call throws and nothing is sent.            *)
RECURSIVE EndEach(_, _, _, _)
EndEach(s, cs, reason, via) ==
    IF cs = <<>> THEN s
    ELSE LET v == Head(cs)
             s1 == IF WriteThrows(s, v, "end") THEN s
                   ELSE ClientWrite(s, v, Frame("end", [reason |-> reason], via))
         IN  EndEach(s1, Tail(cs), reason, via)

(* A listener that also drops the projection it holds.                      *)
onServerErrorResetting(s) ==
    Emit([EndEach(s, s.clients, "Server error", "server_error") EXCEPT
             !.clients = <<>>, !.recentPackets = <<>>, !.worldState = EmptyWorldState,
             !.activeEntityIds = {}, !.chunkMap = <<>>],
         Event("server:error", 0, 0, 0))

(* The "error" listener setupServer registers on the server.                *)
onServerError(s) ==
    Emit([EndEach(s, s.clients, "Server error", "server_error") EXCEPT !.clients = <<>>],
         Event("server:error", 0, 0, 0))

(* this._server?.close() throws when the fault set holds <<0, "close">>.    *)
ServerCloseThrows(s) == <<0, "close">> \in s.faulty

(* A close that leaves the scheduler running.                               *)
closeWithoutPause(s) ==
    LET s2 == [EndEach(s, s.clients, "Server closing", "close") EXCEPT !.clients = <<>>]
    IN  IF s2.server = "null" THEN s2
        ELSE IF ServerCloseThrows(s2) THEN EmitError(s2, <<"server_close", "">>)
             ELSE [s2 EXCEPT !.server = "closed"]

close(s) ==
    LET s1 == pausePlayback(s)
        s2 == [EndEach(s1, s1.clients, "Server closing", "close") EXCEPT !.clients = <<>>]
    IN  IF s2.server = "null" THEN s2
        ELSE IF ServerCloseThrows(s2) THEN EmitError(s2, <<"server_close", "">>)
             ELSE [s2 EXCEPT !.server = "closed"]

(* sendChat: position 0 is the chat box.                                    *)
sendChat(s, v, message) ==
    IF WriteThrows(s, v, "chat") THEN EmitError(s, <<"send_chat", "">>)
    ELSE ClientWrite(s, v, Frame("chat", [message |-> message, position |-> 0], "chat"))

RECURSIVE ChatEach(_, _, _)
ChatEach(s, cs, message) ==
    IF cs = <<>> THEN s
    ELSE ChatEach(sendChat(s, Head(cs), message), Tail(cs), message)

broadcastChat(s, message) == ChatEach(s, s.clients, message)

-----------------------------------------------------------------------------
(* Inputs *)

-----------------------------------------------------------------------------
(* ReplayRecorder.  The recorder as one record: its fields, the clock       *)
(* Date.now() reads (now), how many times onPacket and onSpawn are attached *)
(* to the bot (packetListeners, spawnListeners), every writer it has        *)
(* constructed (heap; binaryWriter is a position in heap, 0 for undefined,  *)
(* replayMetadata is <<>> for undefined), the stopRecording calls suspended *)
(* at their await (awaiting) and what the stopRecording promises settled    *)
(* to (settled).  A heap entry keeps, next to the writer, the length of its *)
(* output and the metadata at every call of close.                          *)

capturedPackets ==
    {"map_chunk", "map_chunk_bulk", "block_change", "multi_block_change",
     "named_entity_spawn", "spawn_entity_living", "spawn_entity",
     "entity_velocity", "entity_teleport", "entity_move_look",
     "rel_entity_move", "entity_look", "entity_head_rotation",
     "entity_destroy", "entity_metadata", "chat", "update_sign", "explosion",
     "entity_equipment", "player_abilities", "player_info"}

(* bot.entity.position and bot.entity.id *)
BotPosition == [x |-> 8, y |-> 64, z |-> 8]
BotEntityId == 7

ReplayMetadata(spawnPosition, start, end) ==
    [spawnPosition |-> spawnPosition, startTime |-> start, endTime |-> end]

(* The metadata object as packer.encode is given it: botUsername is "Bot"   *)
(* and mcVersion "v18".                                                     *)
MetadataTree(m) ==
    TMap(<< <<44, 41, 26, 48, 39, 15, 40, 44, 34, 45, 34, 40, 39>>,
            <<44, 45, 26, 43, 45, 19, 34, 38, 30>>,
            <<30, 39, 29, 19, 34, 38, 30>>,
            <<27, 40, 45, 20, 44, 30, 43, 39, 26, 38, 30>>,
            <<38, 28, 21, 30, 43, 44, 34, 40, 39>> >>,
         <<TMap(<< <<49>>, <<50>>, <<51>> >>,
                <<TInt(m.spawnPosition.x), TInt(m.spawnPosition.y),
                  TInt(m.spawnPosition.z)>>),
           TInt(m.startTime), TInt(m.endTime),
           TStr(<<1, 40, 45>>), TStr(<<47, 53, 60>>)>>)

(* {entityId, playerUUID: "uuid", x, y, z, yaw: 0, pitch: 0,                *)
(*  currentItem: 0, metadata: []}                                           *)
BotSpawnData(spawnPos) ==
    TMap(<< <<30, 39, 45, 34, 45, 50, 8, 29>>,
            <<41, 37, 26, 50, 30, 43, 20, 20, 8, 3>>,
            <<49>>, <<50>>, <<51>>,
            <<50, 26, 48>>, <<41, 34, 45, 28, 33>>,
            <<28, 46, 43, 43, 30, 39, 45, 8, 45, 30, 38>>,
            <<38, 30, 45, 26, 29, 26, 45, 26>> >>,
         <<TInt(BotEntityId), TStr(<<46, 46, 34, 29>>),
           TInt(spawnPos.x * 32), TInt(spawnPos.y * 32), TInt(spawnPos.z * 32),
           TInt(0), TInt(0), TInt(0), TArr(<<>>)>>)

NewRecorder(saveMode) ==
    [saveMode |-> saveMode, recording |-> FALSE, startTime |-> 0,
     packets |-> <<>>, binaryWriter |-> 0, replayMetadata |-> <<>>,
     spawnPositionSet |-> FALSE, botEntitySpawned |-> FALSE,
     now |-> 0, packetListeners |-> 0, spawnListeners |-> 0,
     heap |-> <<>>, awaiting |-> <<>>, settled |-> <<>>]

(* What a stopRecording promise settled to: "resolved" with the result (<<>> *)
(* for undefined), or "rejected" with the error.                            *)
Settled(outcome, result, error) ==
    [outcome |-> outcome, result |-> result, error |-> error]

startRecording(r) ==
    IF r.recording THEN r
    ELSE LET made == ReplayWriter_writeHeader(NewWriter(r.saveMode))
         IN  [r EXCEPT !.startTime = r.now,
                       !.recording = TRUE,
                       !.replayMetadata =
                           <<ReplayMetadata([x |-> 0, y |-> 0, z |-> 0], r.now, r.now)>>,
                       !.heap = Append(@, [writer |-> made, closes |-> <<>>]),
                       !.binaryWriter = Len(r.heap) + 1,
                       !.packetListeners = @ + 1,
                       !.spawnListeners = @ + 1]

(* this.binaryWriter.writePacket(record) inside try / catch: a throw is     *)
(* logged and the writer stays as the failed call left it.                  *)
RecorderWrite(r, record) ==
    LET r1 == [r EXCEPT !.packets = Append(@, record)]
    IN  IF r.binaryWriter = 0 THEN r1
        ELSE [r1 EXCEPT !.heap[r.binaryWriter].writer =
                            ReplayWriter_writePacket(@, record)]

(* The statements of stopRecording after the if block. *)
StopRest(r, outcome) ==
    [r EXCEPT !.packets = <<>>,
              !.replayMetadata = <<>>,
              !.spawnPositionSet = FALSE,
              !.botEntitySpawned = FALSE,
              !.settled = Append(@, outcome)]

(* stopRecording up to its await, or to its end when it does not await.     *)
stopRecording(r) ==
    IF ~r.recording THEN [r EXCEPT !.settled = Append(@, Settled("resolved", <<>>, ""))]
    ELSE LET r1 == [r EXCEPT !.recording = FALSE,
                             !.packetListeners = Max2(0, @ - 1),
                             !.spawnListeners = Max2(0, @ - 1)]
         IN  IF r1.binaryWriter # 0 /\ r1.replayMetadata # <<>>
             THEN LET m == [r1.replayMetadata[1] EXCEPT !.endTime = r1.now]
                      held == r1.heap[r1.binaryWriter]
                  IN  [r1 EXCEPT
                          !.replayMetadata = <<m>>,
                          !.heap[r1.binaryWriter] =
                              [writer |-> ReplayWriter_close(held.writer, MetadataTree(m)),
                               closes |-> Append(held.closes,
                                                 [at |-> Len(Output(held.writer)),
                                                  meta |-> m])],
                          !.awaiting = Append(@, r1.binaryWriter)]
             ELSE StopRest(r1, Settled("resolved", <<>>, ""))

Without(q, k) == SubSeq(q, 1, k - 1) \o SubSeq(q, k + 1, Len(q))

(* stopRecording from its await on, for the k-th suspended call: the close  *)
(* it awaited has settled, with an error (err) or without.  It reads        *)
(* this.binaryWriter and this.replayMetadata again, as they are by now.     *)
stopRecordingResumed(r, k, err) ==
    LET r1 == [r EXCEPT !.awaiting = Without(@, k)]
    IN  IF err THEN [r1 EXCEPT !.settled = Append(@, Settled("rejected", <<>>, "close"))]
        ELSE IF r1.binaryWriter = 0
        THEN [r1 EXCEPT !.settled = Append(@, Settled("rejected", <<>>, "TypeError"))]
        ELSE LET result ==
                     IF r1.saveMode = "memory"
                     THEN <<[metadata |-> r1.replayMetadata,
                             buffer |-> MemoryWriter_getBuffer(r1.heap[r1.binaryWriter].writer)]>>
                     ELSE <<>>
             IN  StopRest([r1 EXCEPT !.binaryWriter = 0],
                          Settled("resolved", result, ""))

onSpawn(r) ==
    IF r.spawnPositionSet \/ r.replayMetadata = <<>> THEN r
    ELSE LET r1 == [r EXCEPT !.replayMetadata[1].spawnPosition = BotPosition,
                             !.spawnPositionSet = TRUE]
         IN  IF r1.botEntitySpawned THEN r1
             ELSE [RecorderWrite(r1, PacketRecord(Num(0, r1.now - r1.startTime),
                                                  "named_entity_spawn",
                                                  BotSpawnData(BotPosition)))
                      EXCEPT !.botEntitySpawned = TRUE]

onPacket(r, data, name) ==
    IF ~r.recording THEN r
    ELSE IF name \notin capturedPackets THEN r
    ELSE RecorderWrite(r, PacketRecord(Num(0, r.now - r.startTime), name, data))


Slacks == {0, 1}

SpeedInputs == {0, 20, 1000}

SeekInputs == (0 - 1) .. (MaxTime(State) + 1)

FaultNames == {"respawn", "position", "map_chunk"}

-----------------------------------------------------------------------------
(* Initial state: a player constructed and initialize()d on a replay file   *)
(* holding one of the logs, nobody connected, playback not started.         *)

(* What an action leaves in last: the operation, its argument, and where   *)
(* the player stood when it began.                                          *)
Did(op, arg) ==
    [op |-> op, arg |-> arg, wasPlaying |-> playing, index |-> packetIndex,
     mark |-> Len(wire), clients |-> clients]

(* The fields as the constructor and the field initialisers leave them,     *)
(* but for packets, metadata and _server.                                   *)
InitRest(fs) ==
    /\ clients = <<>>
    /\ playing = FALSE
    /\ currentTime = 0
    /\ playbackSpeed = SpeedScale
    /\ packetIndex = 0
    /\ startRealTime = Anchor(0, 0)
    /\ recentPackets = <<>>
    /\ worldState = EmptyWorldState
    /\ activeEntityIds = {}
    /\ chunkMap = <<>>
    /\ now = 0
    /\ pending = 0
    /\ wire = <<>>
    /\ faulty \in fs
    /\ handlers = {}
    /\ joined = {}
    /\ ended = {}
    /\ events = <<>>
    /\ errors = <<>>
    /\ rejected = ""
    /\ steps = <<>>
    /\ ops = 0
    /\ last = [op |-> "init", arg |-> 0, wasPlaying |-> FALSE, index |-> 0,
               mark |-> 0, clients |-> <<>>]

(* The player after a successful initialize(): the replay is loaded and the *)
(* server created.                                                          *)
InitPlayer(logs, slacks, fs) ==
    /\ packets \in logs
    /\ \E slack \in slacks : metadata = MetadataFor(packets, slack)
    /\ server = "created"
    /\ InitRest(fs)

(* A player constructed on a loaded replay; no writer is in use. *)
Init ==
    /\ InitPlayer(Logs, Slacks, {{}})
    /\ writer = NewWriter("file") /\ writers = NewWriters
    /\ written = <<>> /\ closing = <<>> /\ readBack = NotRead
    /\ codec = NoCall
    /\ recorder = NewRecorder("memory")

-----------------------------------------------------------------------------
(* Actions: one per public method, listener or callback *)

Control(op, arg, s) ==
    /\ ops < MaxOps
    /\ ops' = ops + 1
    /\ last' = Did(op, arg)
    /\ Commit(s)

StartPlayback == Control("start", 0, startPlayback(State))

PausePlayback == Control("pause", 0, pausePlayback(State))

SetPlaybackSpeed == \E speed \in SpeedInputs :
    Control("speed", speed, setPlaybackSpeed(State, speed))

SeekToTime == \E t \in SeekInputs :
    Control("seek", t, seekToTime(State, t))

(* Connections log in in the order of their ids. *)
Login == \E v \in Viewers :
    /\ server = "created"
    /\ v \notin joined
    /\ \A u \in Viewers : u < v => u \in joined
    /\ Control("login", v, handleClientLogin(State, v))

ClientEnd == \E v \in joined \ ended :
    Control("end", v, onClientEnd(State, v))

(* A queued setImmediate callback runs playbackLoop. *)
Tick ==
    /\ pending > 0
    /\ Commit(playbackLoop([State EXCEPT !.pending = @ - 1]))
    /\ last' = Did("tick", 0)
    /\ UNCHANGED ops

AdvanceClock ==
    /\ now < MaxNow
    /\ now' = now + 1
    /\ last' = Did("clock", 0)
    /\ UNCHANGED <<metadata, packets, clients, playing, currentTime, playbackSpeed,
                   packetIndex, startRealTime, recentPackets, worldState,
                   activeEntityIds, chunkMap, pending, wire, faulty, handlers,
                   joined, ended, events, errors, server, rejected, steps, ops>>
    /\ UNCHANGED containerVars

Next ==
    \/ StartPlayback
    \/ PausePlayback
    \/ SetPlaybackSpeed
    \/ SeekToTime
    \/ Login
    \/ ClientEnd
    \/ Tick
    \/ AdvanceClock

Spec == Init /\ [][Next]_vars

(* Playback left to run: startPlayback is called once and no other control  *)
(* method is; viewers come and go.  The event loop runs every queued        *)
(* setImmediate callback, and the wall clock does not stop while playback   *)
(* waits for it.                                                            *)
HasStarted == \E i \in DOMAIN events : events[i].name = "playback:start"

StartOnce == ~HasStarted /\ StartPlayback

Waiting ==
    /\ playing
    /\ packetIndex < Len(packets)
    /\ After(packets[packetIndex + 1], RealElapsed(State))

PassTime ==
    /\ now < MaxNow \/ Waiting
    /\ now' = now + 1
    /\ last' = Did("clock", 0)
    /\ UNCHANGED <<metadata, packets, clients, playing, currentTime, playbackSpeed,
                   packetIndex, startRealTime, recentPackets, worldState,
                   activeEntityIds, chunkMap, pending, wire, faulty, handlers,
                   joined, ended, events, errors, server, rejected, steps, ops>>
    /\ UNCHANGED containerVars

NextPlayback ==
    \/ StartOnce
    \/ Login
    \/ ClientEnd
    \/ Tick
    \/ PassTime

(* What Tick does to last.  Tick is the only action that leaves a "tick"    *)
(* record there, and a Tick that would leave last as it is runs from the    *)
(* state the previous Tick ran from and left unchanged, so it changes       *)
(* nothing: <<Tick>>_vars and <<TickRuns>>_last are the same steps of       *)
(* NextPlayback, and weak fairness of the one is weak fairness of the       *)
(* other.                                                                   *)
TickRuns == pending > 0 /\ last' = Did("tick", 0)

(* The invariant of SpecPlayback behind that: a queued Tick that would      *)
(* leave last as it is leaves every variable as it is.                      *)
IdleTickChangesNothing ==
    (pending > 0 /\ last = Did("tick", 0)) =>
        playbackLoop([State EXCEPT !.pending = @ - 1]) = State

SpecPlayback ==
    Init /\ [][NextPlayback]_vars /\ WF_last(TickRuns) /\ WF_vars(PassTime)

(* The player with one viewer's sink refusing one kind of frame. *)
FaultSets == {{<<v, name>>} : v \in Viewers, name \in FaultNames}

FullLogs == {log \in Logs : Len(log) = MaxLog}

InitFault ==
    /\ InitPlayer(FullLogs, {0}, FaultSets)
    /\ writer = NewWriter("file") /\ writers = NewWriters
    /\ written = <<>> /\ closing = <<>> /\ readBack = NotRead
    /\ codec = NoCall
    /\ recorder = NewRecorder("memory")

SpecFault == InitFault /\ [][Next]_vars

(* The player from its construction: initialize() is called once, on a file *)
(* that is missing, damaged in its header, or sound.                        *)
FileInputs ==
    {ReplayFile("missing", FALSE, <<>>, 0, <<>>),
     ReplayFile("bad magic", TRUE, <<77, 67, 82, 69, 80, 76, 65, 90>>, VERSION,
                [k \in 1..MaxLog |-> MasterPacket(k)]),
     ReplayFile("bad version", TRUE, MAGIC, VERSION + 1,
                [k \in 1..MaxLog |-> MasterPacket(k)])}
    \cup {ReplayFile("sound", TRUE, MAGIC, VERSION, log) : log \in FullLogs}

Initialize == \E file \in FileInputs :
    /\ server = "null" /\ rejected = ""
    /\ Control("initialize", file.label, initialize(State, file))

NoMetadata == [spawnPosition |-> {}, startTime |-> 0, endTime |-> 0]

InitConstructed ==
    /\ packets = <<>>
    /\ metadata = NoMetadata
    /\ server = "null"
    /\ InitRest({{}})
    /\ writer = NewWriter("file") /\ writers = NewWriters
    /\ written = <<>> /\ closing = <<>> /\ readBack = NotRead
    /\ codec = NoCall
    /\ recorder = NewRecorder("memory")

NextInitialize == Initialize \/ Next

SpecInitialize == InitConstructed /\ [][NextInitialize]_vars

(* The player with its viewers' sessions ending in every way they can: the  *)
(* socket of a viewer ends or fails, the server fails, close() is called.   *)
(* One call of the environment may throw: a write of a handshake frame, of  *)
(* a chat message, a client.end, or the close of the server.                *)
SessionFaults ==
    {{}} \cup {{<<1, name>>} : name \in {"position", "end", "chat"}}
         \cup {{<<0, "close">>}}

ChatInputs == {"hi"}

ClientError == \E v \in joined \ ended :
    Control("error", v, onClientError(State, v))

ServerError ==
    /\ server = "created"
    /\ Control("server_error", 0, onServerError(State))

Close == Control("close", 0, close(State))

BroadcastChat == \E message \in ChatInputs :
    Control("chat", 0, broadcastChat(State, message))

InitSessions ==
    /\ InitPlayer(FullLogs, {0}, SessionFaults)
    /\ writer = NewWriter("file") /\ writers = NewWriters
    /\ written = <<>> /\ closing = <<>> /\ readBack = NotRead
    /\ codec = NoCall
    /\ recorder = NewRecorder("memory")

NextSessions ==
    \/ Next
    \/ ClientError
    \/ ServerError
    \/ Close
    \/ BroadcastChat

SpecSessions == InitSessions /\ [][NextSessions]_vars

-----------------------------------------------------------------------------
(* Writing a container and reading it back *)

(* The player on a long recording: more records than the ring holds, some   *)
(* hundreds to a millisecond, so that playback fills the ring and goes on.  *)
MaxOver == 2       \* records beyond the capacity of the ring
MaxBurst == 400    \* records of the long recording in one millisecond

LongPacket(k) ==
    Rec((k - 1) \div MaxBurst, MasterPacket(k).name, MasterPacket(k).data)

LongLog == [k \in 1..(MaxRecentPackets + MaxOver) |-> LongPacket(k)]

InitRing ==
    /\ InitPlayer({LongLog}, {0}, {{}})
    /\ writer = NewWriter("file") /\ writers = NewWriters
    /\ written = <<>> /\ closing = <<>> /\ readBack = NotRead
    /\ codec = NoCall
    /\ recorder = NewRecorder("memory")

SpecRing == InitRing /\ [][Next]_vars


MaxPackets == 2    \* records offered to one writer
MaxCut == 2        \* bytes a file may have lost from the end of its packet stream

TimestampInputs == {Zero, Num(0, 1500), Num(7, Two28 - 1), Num(8, 0)}

NameInputs == {"chat", "map_chunk", "bogus"}

(* {message: "hi"} *)
ChatPayload == TMap(<< <<38, 30, 44, 44, 26, 32, 30>> >>, <<TStr(<<33, 34>>)>>)

(* {chunkData: <01 02 ff 07>, x: 300} *)
ChunkPayload ==
    TMap(<< <<28, 33, 46, 39, 36, 3, 26, 45, 26>>, <<49>> >>,
         <<TBuf(<<1, 2, 255, 7>>), TInt(300)>>)

(* {__type: "Buffer", __data: "aGk="}, a map and not a blob *)
MarkedPayload == TMap(<<Text__type, Text__data>>, <<TStr(TextBuffer), TStr(<<26, 6, 36, 64>>)>>)

(* [1, null, <empty blob>, 70000] *)
ListPayload == TArr(<<TInt(1), TNull, TBuf(<<>>), TInt(70000)>>)

PayloadInputs == {ChatPayload, ChunkPayload, MarkedPayload, ListPayload}

RecordInputs ==
    {PacketRecord(ts, name, data) :
        ts \in TimestampInputs, name \in NameInputs, data \in PayloadInputs}

(* {spawnPosition: {x, y, z}, startTime, endTime, botUsername: "Bot",       *)
(*  mcVersion: "v18"}                                                       *)
MetadataInput(endTime) ==
    TMap(<< <<44, 41, 26, 48, 39, 15, 40, 44, 34, 45, 34, 40, 39>>,
            <<44, 45, 26, 43, 45, 19, 34, 38, 30>>,
            <<30, 39, 29, 19, 34, 38, 30>>,
            <<27, 40, 45, 20, 44, 30, 43, 39, 26, 38, 30>>,
            <<38, 28, 21, 30, 43, 44, 34, 40, 39>> >>,
         <<TMap(<< <<49>>, <<50>>, <<51>> >>, <<TInt(0), TInt(64), TInt(0)>>),
           TInt(0), TInt(endTime), TStr(<<1, 40, 45>>), TStr(<<47, 53, 60>>)>>)

MetadataInputs == {MetadataInput(0), MetadataInput(1500)}

GarbageBytes == {0, 127}

WriteHeader ==
    /\ closing = <<>>
    /\ writer' = ReplayWriter_writeHeader(writer)
    /\ UNCHANGED <<codec, recorder, writers, written, closing, readBack, playerVars>>

WritePacket == \E record \in RecordInputs :
    /\ closing = <<>>
    /\ writer.packetCount < MaxPackets
    /\ writer' = ReplayWriter_writePacket(writer, record)
    /\ written' = IF writer'.threw = "" THEN Append(written, record) ELSE written
    /\ UNCHANGED <<codec, recorder, writers, closing, readBack, playerVars>>

CloseWriter == \E meta \in MetadataInputs :
    /\ closing = <<>>
    /\ writer' = ReplayWriter_close(writer, meta)
    /\ closing' = <<meta>>
    /\ UNCHANGED <<codec, recorder, writers, written, readBack, playerVars>>

(* A file that lost the last cut bytes of its packet stream, its metadata   *)
(* block and length being those of the file written.                        *)
Truncated(file, meta, cut) ==
    LET dataEnd == Len(file) - 4 - Len(Pack(meta))
    IN  SubSeq(file, 1, dataEnd - cut) \o SubSeq(file, dataEnd + 1, Len(file))

(* The length of the data of the last record written.                       *)
LastDataLength == Len(Pack(serializeData(written[Len(written)].data)))

(* A reader opens such a file, whose last record has lost the end of its    *)
(* data, and reads it to the end.                                           *)
ReadTruncated == \E g \in GarbageBytes, cut \in 1..MaxCut :
    /\ closing # <<>>
    /\ readBack = NotRead
    /\ written # <<>>
    /\ cut < LastDataLength
    /\ readBack' = [Reader_read(Truncated(Output(writer), closing[1], cut), g)
                       EXCEPT !.cut = cut]
    /\ UNCHANGED <<codec, recorder, writer, writers, written, closing, playerVars>>

ReadFile == \E g \in GarbageBytes :
    /\ closing # <<>>
    /\ readBack = NotRead
    /\ readBack' = Reader_read(Output(writer), g)
    /\ UNCHANGED <<codec, recorder, writer, writers, written, closing, playerVars>>

InitContainer ==
    /\ writer \in {NewWriter(kind) : kind \in WriterKinds}
    /\ writers = NewWriters
    /\ written = <<>>
    /\ closing = <<>>
    /\ readBack = NotRead
    /\ codec = NoCall
    /\ recorder = NewRecorder("memory")

InitFormat ==
    /\ InitPlayer({<<>>}, {0}, {{}})
    /\ InitContainer

NextFormat ==
    \/ WriteHeader
    \/ WritePacket
    \/ CloseWriter
    \/ ReadFile
    \/ ReadTruncated

SpecFormat == InitFormat /\ [][NextFormat]_vars

(* One writer of each kind, all three given the same calls. *)
WriteHeaderAll ==
    /\ closing = <<>>
    /\ writers' = [kind \in WriterKinds |-> ReplayWriter_writeHeader(writers[kind])]
    /\ UNCHANGED <<codec, recorder, writer, written, closing, readBack, playerVars>>

WritePacketAll == \E record \in RecordInputs :
    /\ closing = <<>>
    /\ Len(written) < MaxPackets
    /\ writers' = [kind \in WriterKinds |->
                      ReplayWriter_writePacket(writers[kind], record)]
    /\ written' = IF writers'["file"].threw = "" THEN Append(written, record)
                  ELSE written
    /\ UNCHANGED <<codec, recorder, writer, closing, readBack, playerVars>>

CloseAll == \E meta \in MetadataInputs :
    /\ closing = <<>>
    /\ writers' = [kind \in WriterKinds |-> ReplayWriter_close(writers[kind], meta)]
    /\ closing' = <<meta>>
    /\ UNCHANGED <<codec, recorder, writer, written, readBack, playerVars>>

InitWriters ==
    /\ InitPlayer({<<>>}, {0}, {{}})
    /\ writer = NewWriter("file") /\ writers = NewWriters
    /\ written = <<>> /\ closing = <<>> /\ readBack = NotRead
    /\ codec = NoCall
    /\ recorder = NewRecorder("memory")

NextWriters ==
    \/ WriteHeaderAll
    \/ WritePacketAll
    \/ CloseAll

SpecWriters == InitWriters /\ [][NextWriters]_vars


-----------------------------------------------------------------------------
(* The codecs called on their own: encodeVarint and decodeVarint on         *)
(* numbers and on byte strings, serializeData and deserializeData on        *)
(* payload trees.  codec holds the call made last.                          *)

MaxHigh == 16      \* numbers offered to encodeVarint are below (MaxHigh + 1) * 2^28
MaxRun == 12       \* continuation bytes in a byte string offered to decodeVarint

VarintInputs ==
    {Num(hi, lo) : hi \in 0..MaxHigh,
                   lo \in {0, 1, Two7 - 1, Two7, 300, Two7 * Two7, Two28 - 1}}

(* A run of continuation bytes, then a last byte or nothing. *)
VarintBuffers ==
    {[i \in 1..run |-> c] \o tail :
        run \in 0..MaxRun, c \in {Two7, 2 * Two7 - 1},
        tail \in {<<>>, <<0>>, <<1>>, <<Two7 - 1>>}}

(* decodeVarint(encodeVarint(value), 0) *)
EncodeDecode == \E value \in VarintInputs :
    /\ codec' = [op |-> "encodeVarint", value |-> value,
                 buffer |-> encodeVarint(value),
                 result |-> decodeVarint(encodeVarint(value), 0)]
    /\ UNCHANGED <<writer, writers, written, closing, readBack, recorder, playerVars>>

(* decodeVarint(buffer, offset) *)
DecodeBytes == \E buffer \in VarintBuffers, offset \in 0..1 :
    /\ codec' = [op |-> "decodeVarint", buffer |-> buffer, offset |-> offset,
                 result |-> decodeVarint(buffer, offset)]
    /\ UNCHANGED <<writer, writers, written, closing, readBack, recorder, playerVars>>

(* Payload trees: the payloads of the records, scalars, a blob on its own,  *)
(* containers of them, and maps that hold the keys __type and __data.       *)
TreeInputs ==
    PayloadInputs
        \cup {TNull, TInt(300), TStr(TextBuffer), TBuf(<<104, 105>>), TBuf(<<>>),
              TArr(<<ChunkPayload, TBuf(<<255>>)>>),
              TArr(<<MarkedPayload>>),
              TMap(<<Text__type, Text__data>>, <<TStr(TextBuffer), TInt(7)>>),
              TMap(<<Text__type, Text__data>>, <<TStr(<<>>), TStr(<<26, 6, 36, 64>>)>>),
              TMap(<<Text__type, Text__data, <<49>> >>,
                   <<TStr(TextBuffer), TStr(<<26, 6, 36, 64>>), TInt(1)>>),
              TMap(<< <<49>> >>, <<ListPayload>>)}

(* deserializeData(serializeData(tree)) *)
SerializeDeserialize == \E tree \in TreeInputs :
    /\ codec' = [op |-> "serializeData", tree |-> tree,
                 serialized |-> serializeData(tree),
                 result |-> deserializeData(serializeData(tree))]
    /\ UNCHANGED <<writer, writers, written, closing, readBack, recorder, playerVars>>

InitCodec ==
    /\ InitPlayer({<<>>}, {0}, {{}})
    /\ writer = NewWriter("file") /\ writers = NewWriters
    /\ written = <<>> /\ closing = <<>> /\ readBack = NotRead
    /\ codec = NoCall
    /\ recorder = NewRecorder("memory")

NextCodec ==
    \/ EncodeDecode
    \/ DecodeBytes
    \/ SerializeDeserialize

SpecCodec == InitCodec /\ [][NextCodec]_vars

-----------------------------------------------------------------------------
(* Observations used by the properties *)

(* The recorder driven by its caller and its bot: startRecording and        *)
(* stopRecording are called at any time, the bot delivers packets and its   *)
(* spawn to the listeners attached, the clock moves, and a suspended        *)
(* stopRecording resumes when the close it awaits has settled.              *)

MaxRecordings == 2   \* writers one recorder constructs
MaxStops == 3        \* stopRecording promises settled
MaxRecorded == 2     \* records in this.packets
MaxClock == 2        \* Date.now() at most

BotPacketNames == {"chat", "map_chunk", "keep_alive"}

(* A memory writer's close is settled when it returns, so a stopRecording   *)
(* that awaits it resumes in a microtask: before the bot delivers anything, *)
(* and in the order of the calls.  A file writer's close settles when the   *)
(* stream has ended, or failed, which is after any number of events.        *)
MicrotasksDrained == recorder.saveMode = "file" \/ recorder.awaiting = <<>>

RecorderDoes(r) ==
    /\ recorder' = r
    /\ UNCHANGED <<writer, writers, written, closing, readBack, codec, playerVars>>

StartRecording ==
    /\ recorder.recording \/ Len(recorder.heap) < MaxRecordings
    /\ RecorderDoes(startRecording(recorder))

StopRecording ==
    /\ Len(recorder.settled) + Len(recorder.awaiting) < MaxStops
    /\ RecorderDoes(stopRecording(recorder))

StopRecordingResumes == \E k \in DOMAIN recorder.awaiting, err \in BOOLEAN :
    /\ recorder.saveMode = "file" \/ (k = 1 /\ ~err)
    /\ RecorderDoes(stopRecordingResumed(recorder, k, err))

(* bot.once("spawn", onSpawn): the listener is removed, then called. *)
BotSpawns ==
    /\ MicrotasksDrained
    /\ recorder.spawnListeners > 0
    /\ RecorderDoes(onSpawn([recorder EXCEPT !.spawnListeners = @ - 1]))

BotPacket == \E name \in BotPacketNames :
    /\ MicrotasksDrained
    /\ recorder.packetListeners > 0
    /\ Len(recorder.packets) < MaxRecorded
    /\ RecorderDoes(onPacket(recorder, ChatPayload, name))

ClockMoves ==
    /\ recorder.now < MaxClock
    /\ RecorderDoes([recorder EXCEPT !.now = @ + 1])

InitRecorder ==
    /\ InitPlayer({<<>>}, {0}, {{}})
    /\ writer = NewWriter("file") /\ writers = NewWriters
    /\ written = <<>> /\ closing = <<>> /\ readBack = NotRead
    /\ codec = NoCall
    /\ recorder \in {NewRecorder(saveMode) : saveMode \in WriterKinds}

NextRecorder ==
    \/ StartRecording
    \/ StopRecording
    \/ StopRecordingResumes
    \/ BotSpawns
    \/ BotPacket
    \/ ClockMoves

SpecRecorder == InitRecorder /\ [][NextRecorder]_vars

-----------------------------------------------------------------------------

Sink(w, v) ==
    LET mine == SelectSeq(w, LAMBDA e : e.to = v)
    IN  [i \in DOMAIN mine |-> mine[i].frame]

(* What the last operation wrote. *)
Appended == SubSeq(wire, last.mark + 1, Len(wire))

AsFrames(pkts, via) ==
    [i \in DOMAIN pkts |-> Frame(pkts[i].name, pkts[i].data, via)]

ToViewer(v, frames) == [i \in DOMAIN frames |-> [to |-> v, frame |-> frames[i]]]

ToEach(cs, frame) == [i \in DOMAIN cs |-> [to |-> cs[i], frame |-> frame]]

Projection(s) ==
    [chunkByCoord |-> Range(s.chunkMap),
     bulkChunkLog |-> s.worldState["map_chunk_bulk"],
     entityIds |-> s.activeEntityIds,
     namedLog |-> [n \in StatePacketTypes |-> s.worldState[n]],
     recentRing |-> s.recentPackets]

WithEmptyProjection(s) ==
    [s EXCEPT !.recentPackets = <<>>, !.worldState = EmptyWorldState,
              !.activeEntityIds = {}, !.chunkMap = <<>>]

UpTo(log, t) == SelectSeq(log, LAMBDA r : r.timestamp <= t)

RECURSIVE ApplyAll(_, _)
ApplyAll(s, recs) ==
    IF recs = <<>> THEN s ELSE ApplyAll(Project(s, Head(recs)), Tail(recs))

RECURSIVE TrackAll(_, _)
TrackAll(s, recs) ==
    IF recs = <<>> THEN s
    ELSE TrackAll(trackWorldStatePacket(s, Head(recs)), Tail(recs))

SeekTarget == Clamp(0, MaxTime(State), last.arg)

(* The frames a resync sends for the projection of s, in the order the      *)
(* chunk Map iterates. *)
ProjectionFrames(s) ==
    AsFrames(MapValues(s.chunkMap) \o s.worldState["map_chunk_bulk"]
                \o s.worldState["player_info"] \o s.worldState["named_entity_spawn"]
                \o s.worldState["spawn_entity_living"] \o s.worldState["spawn_entity"],
             "sync")

-----------------------------------------------------------------------------
(* C2: after seekToTime(t) the whole projection, recentRing included,       *)
(* equals the empty projection with every record of timestamp <= t          *)
(* (t clamped to the duration) applied in order.                            *)
C2_SeekProjectionIsPrefixApplied ==
    last.op = "seek" =>
        Projection(State)
            = Projection(ApplyAll(WithEmptyProjection(State), UpTo(packets, SeekTarget)))

(* C3: a viewer that logs in while playing has on its sink exactly login,   *)
(* spawn_position, position, the chunkByCoord records, the bulk chunk       *)
(* records, the player_info records, the spawn records (named, living,      *)
(* entity) and then recentRing; nothing else was written to it, and the     *)
(* login wrote to no other sink.                                            *)
C3_LateJoinerSequence ==
    (last.op = "login" /\ last.wasPlaying) =>
        /\ Sink(wire, last.arg)
             = <<LoginFrame(last.arg)>> \o SpawnFrames(State, "handshake")
                 \o ProjectionFrames(State) \o AsFrames(recentPackets, "sync")
        /\ \A i \in DOMAIN Sink(wire, last.arg) : Sink(wire, last.arg)[i].via # "live"
        /\ \A i \in DOMAIN Appended : Appended[i].to = last.arg

C3_Witness ==
    /\ last.op = "login" /\ last.wasPlaying
    /\ recentPackets # <<>>
    /\ chunkMap # <<>>
    /\ EntitySpawnPackets(State) # <<>>

(* C4: all that seekToTime writes is, to each connected viewer in turn,     *)
(* respawn -1, respawn 0, spawn_position, position and the records of the   *)
(* rebuilt projection; no ring replay, no other record of the log.          *)
C4_SeekWritesOnlyResync ==
    last.op = "seek" =>
        LET rebuilt == TrackAll(WithEmptyProjection(State), UpTo(packets, SeekTarget))
            resync == <<RespawnFrame(0 - 1, "sync"), RespawnFrame(0, "sync")>>
                        \o SpawnFrames(State, "sync") \o ProjectionFrames(rebuilt)
        IN  Appended = Concat([i \in DOMAIN clients |-> ToViewer(clients[i], resync)])

C4_Reached ==
    /\ last.op = "seek" /\ last.wasPlaying
    /\ clients # <<>>
    /\ packets # <<>>

-----------------------------------------------------------------------------
(* Live-tick order on one sink *)

SeekTargets ==
    LET seeks == SelectSeq(events, LAMBDA e : e.name = "playback:seek")
    IN  [i \in DOMAIN seeks |-> seeks[i].b]

(* Number of records a seek to time (in tenths) leaves behind the cursor:   *)
(* those with timestamp <= time.                                            *)
CountUpTo(log, time) == Cardinality({k \in DOMAIN log : ~After(log[k], time)})

IsClear(f) == f.name = "respawn" /\ f.data.dimension = 0

ClearsBefore(frames, i) == Cardinality({j \in 1..i : IsClear(frames[j])})

(* The live frame at position i of a sink is in replay order: it follows    *)
(* the live frame before it by one log index, unless a seek's world clear   *)
(* lies between them (or before it, for the first), and then it is the      *)
(* first record past that seek's target.                                    *)
LiveInOrder(frames, i) ==
    LET livesBefore == {j \in 1..(i - 1) : frames[j].via = "live"}
        clears == ClearsBefore(frames, i)
        prev == CHOOSE j \in livesBefore : \A k \in livesBefore : k <= j
        seekNo == Len(SeekTargets) - ClearsBefore(frames, Len(frames)) + clears
    IN  IF livesBefore # {} /\ ClearsBefore(frames, prev) = clears
        THEN frames[i].data.seq = frames[prev].data.seq + 1
        ELSE clears > 0 =>
                frames[i].data.seq = CountUpTo(packets, SeekTargets[seekNo]) + 1

(* C5: on the sink of every connected viewer the live-tick frames are in    *)
(* log order without gap or repetition between seeks, and after a seek to t *)
(* they are the records of timestamp > t from the first such record on.     *)
C5_LiveTickOrder ==
    \A v \in Range(clients) \ ended :
        LET frames == Sink(wire, v)
        IN  \A i \in DOMAIN frames : frames[i].via = "live" => LiveInOrder(frames, i)

(* The records the playback loop consumed during the last operation.        *)
Consumed ==
    LET from == IF last.op = "seek"
                THEN SeekScan(State, 0, SeekTarget).newIndex
                ELSE last.index
    IN  SubSeq(packets, from + 1, packetIndex)

Broadcast(pkts, cs) ==
    Concat([k \in DOMAIN pkts |->
              ToEach(cs, Frame(pkts[k].name, pkts[k].data, "live"))])

(* C6: the live frames an operation writes are, for each record the loop    *)
(* consumed in turn, that record to every connected viewer, before the next *)
(* record to anyone; so viewers connected together see the same live        *)
(* sequence; and what a login writes goes to the joining viewer alone.      *)
C6_BroadcastToAll ==
    /\ SelectSeq(Appended, LAMBDA e : e.frame.via = "live")
         = IF last.op \in {"tick", "start", "speed", "seek"}
           THEN Broadcast(Consumed, clients) ELSE <<>>
    /\ last.op = "login" => \A i \in DOMAIN Appended : Appended[i].to = last.arg
    /\ \A u, v \in Range(clients) \cap Range(last.clients) :
         SelectSeq(Sink(Appended, u), LAMBDA f : f.via = "live")
           = SelectSeq(Sink(Appended, v), LAMBDA f : f.via = "live")

C6_Witness ==
    /\ last.op = "tick"
    /\ Len(clients) >= 2
    /\ packetIndex >= last.index + 2

(* C9 as claimed: playing after seekToTime equals playing before it.        *)
C9_SeekKeepsPlaying == last.op = "seek" => playing = last.wasPlaying

(* C9, amended: a seek made while paused leaves playback paused; a seek     *)
(* made while playing leaves it playing unless the loop that the seek       *)
(* restarts finds the cursor at the end of the log, and then playback has   *)
(* ended: playing is false and playback:end was the last event.             *)
C9_SeekKeepsPlayingUnlessEnded ==
    last.op = "seek" =>
        /\ playing = (last.wasPlaying /\ packetIndex < Len(packets))
        /\ (last.wasPlaying /\ ~playing) => events[Len(events)].name = "playback:end"

C9_Witness ==
    /\ last.op = "seek" /\ last.wasPlaying /\ playing
    /\ packetIndex > 0

(* C10: seekToTime(t) twice in a row leaves cursor, currentTime, playing,   *)
(* the projection and the pacing (speed and anchor) as one seekToTime(t)    *)
(* does.                                                                    *)
SchedulerView(s) ==
    [cursor |-> s.packetIndex, currentTime |-> s.currentTime, playing |-> s.playing,
     projection |-> Projection(s), speed |-> s.playbackSpeed,
     anchor |-> s.startRealTime]

C10_SeekIdempotent ==
    \A t \in SeekInputs :
        SchedulerView(seekToTime(seekToTime(State, t), t))
            = SchedulerView(seekToTime(State, t))


-----------------------------------------------------------------------------
(* Properties of the container *)

RECURSIVE NonDecreasingFrom(_, _)
NonDecreasingFrom(from, records) ==
    \/ records = <<>>
    \/ /\ ~NumLess(records[1].timestamp, from)
       /\ NonDecreasingFrom(records[1].timestamp, Tail(records))

(* writeHeader, every writePacket accepted, close, then a read: the records *)
(* were non-decreasing from 0 and all named in the packet-id table.         *)
WroteAndRead ==
    /\ readBack # NotRead /\ readBack.cut = 0
    /\ writer.headerWritten
    /\ writer.threw = ""
    /\ writer.packetCount = Len(written)
    /\ NonDecreasingFrom(Zero, written)

(* C1: a stream of records with known names and timestamps non-decreasing  *)
(* from 0, written between writeHeader and close(meta), is read back as     *)
(* exactly the same records, in order, with the same absolute timestamps,   *)
(* and with the same meta.                                                  *)
C1_RoundTrip ==
    WroteAndRead =>
        /\ readBack.status = "ok"
        /\ readBack.packets = written
        /\ readBack.metadata = closing[1]


-----------------------------------------------------------------------------
(* Failing sinks.  What an operation does from the current state is         *)
(* compared with what it does from the same state when no write throws.     *)

Unfailing(s) == [s EXCEPT !.faulty = {}]

HandshakeNames == {"login", "spawn_position", "position"}

HandshakeFails(v) == \E name \in HandshakeNames : <<v, name>> \in faulty

(* The operations that tick or resync, from the current state. *)
Emitting ==
    {<<"tick", 0>> : k \in 1..Min2(pending, 1)}
    \cup {<<"seek", t>> : t \in SeekInputs}
    \cup {<<"login", v>> : v \in {u \in Viewers \ joined : ~HandshakeFails(u)}}

Perform(o, s) ==
    CASE o[1] = "tick" -> playbackLoop([s EXCEPT !.pending = @ - 1])
      [] o[1] = "seek" -> seekToTime(s, o[2])
      [] OTHER -> handleClientLogin(s, o[2])

WrittenBy(o, s) == SubSeq(Perform(o, s).wire, Len(wire) + 1, Len(Perform(o, s).wire))

ReportedBy(o, s) == SubSeq(Perform(o, s).errors, Len(errors) + 1, Len(Perform(o, s).errors))

Lost(e) == <<e.to, e.frame.name>> \in faulty

(* A frame of the dimension-switch block of a seek's resync. *)
InSwitch(e) == e.frame.via = "sync" /\ e.frame.name \in {"respawn", "spawn_position", "position"}

(* A frame of that block that follows, for the same viewer, one that failed *)
SkippedAt(w, i) ==
    /\ InSwitch(w[i])
    /\ \E j \in 1..(i - 1) : InSwitch(w[j]) /\ w[j].to = w[i].to /\ Lost(w[j])

(* The elements of w at the indices in keep, in order. *)
RECURSIVE Pick(_, _, _)
Pick(w, from, keep) ==
    IF from > Len(w) THEN <<>>
    ELSE (IF from \in keep THEN <<w[from]>> ELSE <<>>) \o Pick(w, from + 1, keep)

TagAsClaimed(e) ==
    IF e.frame.via = "live" THEN <<"packet_replay", e.frame.name>>
    ELSE <<"sync", e.frame.name>>

TagInCode(e) == IF InSwitch(e) THEN <<"dimension_switch", "">> ELSE TagAsClaimed(e)

Tags(es, Tag(_)) == [i \in DOMAIN es |-> Tag(es[i])]

SameScheduling(f, g) ==
    /\ SchedulerView(f) = SchedulerView(g)
    /\ f.clients = g.clients
    /\ f.pending = g.pending
    /\ f.events = g.events
    /\ f.handlers = g.handlers

-----------------------------------------------------------------------------
(* Playback runs to its end *)

EndCount == Cardinality({i \in DOMAIN events : events[i].name = "playback:end"})

PlaybackOver == packetIndex = Len(packets) /\ ~playing /\ EndCount = 1

(* C7: once startPlayback has been called, and nothing but ticks, the clock *)
(* and viewers' connections follows, playback reaches cursor = N with       *)
(* playing = false and playback:end emitted exactly once, and stays there.  *)
C7_PlaybackEnds == HasStarted ~> []PlaybackOver

C7_Witness ==
    /\ PlaybackOver
    /\ last.op = "tick"
    /\ Len(packets) = MaxLog
    /\ clients # <<>>

-----------------------------------------------------------------------------
(* Speed changes *)

(* What C11 names of the scheduler: the reading of currentTime, the cursor, *)
(* the projection and whether playback runs.                                *)
Continuity(s) ==
    [currentTime |-> s.currentTime, cursor |-> s.packetIndex,
     projection |-> Projection(s), playing |-> s.playing]

(* C11: setPlaybackSpeed(s) causes no discontinuity: for every requested    *)
(* speed, the reading of currentTime after the call equals the reading      *)
(* before it, and the cursor, the projection and playing are as before.     *)
C11_SpeedChangeIsContinuous ==
    \A speed \in SpeedInputs :
        Continuity(setPlaybackSpeed(State, speed)) = Continuity(State)

(* The speed was changed during playback, after the clock had moved, with   *)
(* records behind and ahead of the cursor.                                  *)
C11_Witness ==
    /\ last.op = "speed" /\ last.wasPlaying /\ playing
    /\ playbackSpeed # SpeedScale
    /\ now > 0 /\ currentTime > 0
    /\ 0 < packetIndex /\ packetIndex < Len(packets)

(* Speeds a caller may request, in tenths: below, at, between and above the *)
(* limits (0.0 is 0 and 100 is 1000).                                       *)
SpeedRequests == SpeedInputs \cup {0 - 10, 1, 5, 99, 100, 101}

(* C12: in every reachable state the playback speed lies in [0.1, 10], and  *)
(* setPlaybackSpeed(s) sets it to min(10, max(0.1, s)) for every requested  *)
(* s, reporting no error.                                                   *)
C12_SpeedIsClamped ==
    /\ MinSpeed <= playbackSpeed /\ playbackSpeed <= MaxSpeed
    /\ \A speed \in SpeedRequests :
          LET after == setPlaybackSpeed(State, speed)
          IN  /\ after.playbackSpeed = Min2(MaxSpeed, Max2(MinSpeed, speed))
              /\ after.errors = errors

(* 100 was requested and gave 10, then 0.0 was requested and gave 0.1.      *)
C12_Witness ==
    /\ last.op = "speed" /\ last.arg = 0 /\ playbackSpeed = MinSpeed
    /\ \E i \in DOMAIN events :
          /\ events[i].name = "playback:speed"
          /\ events[i].a = MaxSpeed /\ events[i].b = 1000

-----------------------------------------------------------------------------
(* Start and pause *)

(* C13: startPlayback while playing and pausePlayback while paused change   *)
(* nothing: no field of the scheduler, no playback:start or playback:pause  *)
(* event, and no further tick is scheduled.                                 *)
C13_RepeatedStartAndPauseAreNoOps ==
    /\ playing => startPlayback(State) = State
    /\ ~playing => pausePlayback(State) = State

(* startPlayback was called while playback ran, with a tick scheduled.      *)
C13_Witness ==
    /\ last.op = "start" /\ last.wasPlaying
    /\ playing /\ pending > 0
    /\ packetIndex < Len(packets)

-----------------------------------------------------------------------------
(* The ring of recent packets *)

Sought == \E i \in DOMAIN events : events[i].name = "playback:seek"

(* C14: in every reachable state recentRing holds at most 1000 packets, in  *)
(* the order they were emitted, the oldest having been evicted first: it is *)
(* the run of the log that ends at the cursor, and as long as no seek has   *)
(* emptied it, it holds every emitted packet or the last 1000 of them.      *)
C14_RingIsBoundedAndInOrder ==
    LET n == Len(recentPackets)
    IN  /\ n <= MaxRecentPackets
        /\ n <= packetIndex
        /\ recentPackets = SubSeq(packets, packetIndex - n + 1, packetIndex)
        /\ ~Sought => n = Min2(packetIndex, MaxRecentPackets)

(* Playback went past 1000 packets: the ring is full and the first packets  *)
(* of the log are no longer in it.                                          *)
C14_Witness ==
    /\ Len(recentPackets) = MaxRecentPackets
    /\ packetIndex > MaxRecentPackets
    /\ recentPackets[1] = packets[packetIndex - MaxRecentPackets + 1]
    /\ recentPackets[1] # packets[1]
    /\ last.op = "tick"

-----------------------------------------------------------------------------
(* The writer's protocol *)

(* The call that gave w2 from w failed and left the writer as it was: no    *)
(* byte written, to the file or as a chunk, and lastTimestamp and           *)
(* packetCount as before.                                                   *)
FailedUnchanged(w, w2) ==
    /\ w2.threw # ""
    /\ w2.file = w.file /\ w2.buffers = w.buffers /\ w2.chunks = w.chunks
    /\ w2.bytesWritten = w.bytesWritten
    /\ w2.lastTimestamp = w.lastTimestamp /\ w2.packetCount = w.packetCount
    /\ w2.headerWritten = w.headerWritten

(* C15: a second writeHeader fails, and a writePacket before writeHeader    *)
(* fails; in both failures no byte is emitted and the writer's              *)
(* lastTimestamp and packetCount are unchanged.                             *)
C15_HeaderProtocol ==
    /\ writer.headerWritten => FailedUnchanged(writer, ReplayWriter_writeHeader(writer))
    /\ ~writer.headerWritten =>
          \A record \in RecordInputs :
              FailedUnchanged(writer, ReplayWriter_writePacket(writer, record))

(* writeHeader was called again after a record had been written.            *)
C15_Witness ==
    /\ writer.threw = "Header already written"
    /\ writer.packetCount > 0 /\ writer.lastTimestamp # Zero
    /\ closing = <<>>

(* C16: writePacket(r) with r.timestamp smaller than the timestamp written  *)
(* before it fails: it raises an error and emits no record bytes.           *)
C16_NegativeDeltaFails ==
    \A record \in RecordInputs :
        (/\ writer.headerWritten
         /\ record.name \in DOMAIN PACKET_IDS
         /\ NumLess(record.timestamp, writer.lastTimestamp)) =>
            LET after == ReplayWriter_writePacket(writer, record)
            IN  after.threw # "" /\ Output(after) = Output(writer)

(* The timestamp of the last record a writePacket call accepted.            *)
LastAccepted == IF written = <<>> THEN Zero ELSE written[Len(written)].timestamp

StartsWith(bytes, prefix) ==
    Len(bytes) >= Len(prefix) /\ SubSeq(bytes, 1, Len(prefix)) = prefix

(* C17: writePacket(r) with a name that is not in the packet-id table fails *)
(* and leaves the writer unchanged: no byte is emitted, packetCount and     *)
(* lastTimestamp are unchanged, so the record accepted next is written with *)
(* its delta from the last record that was written.                         *)
C17_UnknownNameLeavesWriter ==
    \A record \in RecordInputs :
        (/\ closing = <<>> /\ writer.headerWritten
         /\ record.name \notin DOMAIN PACKET_IDS) =>
            LET failed == ReplayWriter_writePacket(writer, record)
            IN  /\ FailedUnchanged(writer, failed)
                /\ \A next \in RecordInputs :
                      (next.name \in DOMAIN PACKET_IDS /\ next.data = ChatPayload) =>
                         LET after == ReplayWriter_writePacket(failed, next)
                             bytes == SubSeq(Output(after), Len(Output(writer)) + 1,
                                             Len(Output(after)))
                         IN  /\ after.threw = ""
                             /\ after.packetCount = Len(written) + 1
                             /\ StartsWith(bytes,
                                   encodeVarint(NumSub(next.timestamp, LastAccepted)))

(* A record of unknown name was refused after a record had been written.    *)
C17_Witness ==
    /\ writer.threw = "Unknown packet name"
    /\ written # <<>> /\ LastAccepted # Zero
    /\ writer.lastTimestamp = LastAccepted
    /\ closing = <<>>

-----------------------------------------------------------------------------
(* The three writers *)

(* C18: given the same writeHeader / writePacket / close(metadata) calls,   *)
(* the file-backed writer, the in-memory writer and the streaming writer    *)
(* have produced the same bytes (and failed on the same calls, and count    *)
(* the same bytes and packets); in stream mode the chunks handed to the     *)
(* callback, put end to end, are the in-memory buffer.                      *)
C18_WritersAgree ==
    /\ \A kind \in WriterKinds :
          /\ Output(writers[kind]) = writers["file"].file
          /\ writers[kind].threw = writers["file"].threw
          /\ writers[kind].bytesWritten = Len(writers["file"].file)
          /\ writers[kind].packetCount = writers["file"].packetCount
    /\ Concat(writers["stream"].chunks) = MemoryWriter_getBuffer(writers["memory"])
    /\ writers["memory"].chunks = <<>>

(* The three writers were given a header, as many records as the bound      *)
(* allows and a close.                                                      *)
C18_Witness ==
    /\ closing # <<>>
    /\ Len(written) = MaxPackets
    /\ writers["file"].packetCount = MaxPackets
    /\ Len(writers["stream"].chunks) = 2 + 4 * MaxPackets + 2
    /\ Len(writers["file"].file) > Len(MAGIC) + 1

-----------------------------------------------------------------------------
(* Reading a damaged packet stream *)

(* C19: readPackets fails, and does not end normally, when a record of the  *)
(* packet stream has an unknown packet id or is truncated, its bytes going  *)
(* past dataEnd = file_size - 4 - L: here the file read had lost the last   *)
(* bytes of the data of its last record.                                    *)
C19_TruncatedRecordFails ==
    (readBack # NotRead /\ readBack.cut > 0) => readBack.status # "ok"

-----------------------------------------------------------------------------
(* Failing initialization *)

InitializationTag == <<"replay_initialization", "">>

(* C20: initialize() fails when the file is missing, its magic is not       *)
(* "MCREPLAY" or its version is not 0x01: the error reaches the caller, an  *)
(* error event with context replay_initialization is reported, no server is *)
(* created, and no viewer is accepted then or later.                        *)
C20_InitializeFails ==
    /\ \A file \in FileInputs :
          (~file.exists \/ file.magic # MAGIC \/ file.version # VERSION) =>
              LET s == initialize(State, file)
              IN  /\ s.rejected # ""
                  /\ s.errors # errors
                  /\ s.server = server
    /\ rejected # "" =>
          /\ InitializationTag \in Range(errors)
          /\ server = "null"
          /\ joined = {} /\ clients = <<>> /\ wire = <<>>

(* initialize() was refused for the version of the file, and the caller     *)
(* went on to call startPlayback while time passed.                         *)
C20_Witness ==
    /\ rejected = "Unsupported replay file version"
    /\ errors = <<InitializationTag>>
    /\ last.op = "start" /\ now > 0
    /\ packets = <<>>

-----------------------------------------------------------------------------
(* C21: for every integer n >= 0, decodeVarint(encodeVarint(n), 0) returns  *)
(* the value n, and as bytesRead the number of bytes encodeVarint produced. *)
C21_VarintRoundTrip ==
    codec.op = "encodeVarint" =>
        /\ ~codec.result.failed
        /\ codec.result.value = codec.value
        /\ codec.result.bytesRead = Len(codec.buffer)

-----------------------------------------------------------------------------
(* C22: decodeVarint fails when the buffer is exhausted before a byte with  *)
(* the MSB clear is found, and also fails when more than 10 bytes have been *)
(* read without termination.                                                *)
Continued(buffer, offset, n) ==
    \A i \in 1..n : offset + i <= Len(buffer) /\ buffer[offset + i] >= Two7

C22_DecodeFails ==
    codec.op = "decodeVarint" =>
        /\ Continued(codec.buffer, codec.offset, Len(codec.buffer) - codec.offset)
              => codec.result.failed
        /\ Continued(codec.buffer, codec.offset, 11) => codec.result.failed

-----------------------------------------------------------------------------
(* C23: for any payload tree P built from scalars, byte blobs, sequences    *)
(* and string-keyed maps, maps with the keys __type and __data included,    *)
(* deserializeData(serializeData(P)) is structurally equal to P: blobs stay *)
(* blobs and maps stay maps.                                                *)
C23_PayloadRoundTrip ==
    codec.op = "serializeData" => codec.result = codec.tree

-----------------------------------------------------------------------------
(* C24: a viewer session is in the connected set exactly from its login     *)
(* until its disconnect, its connection error, a server error or close();   *)
(* once it has been removed, no packet (live tick, resync or chat) is       *)
(* written to its sink.  Stated of every operation: what it leaves in the   *)
(* connected set, and whom the frames it wrote went to.                     *)
Connected(cs, v) == v \in Range(cs)

Removes(op, arg, v) ==
    \/ op \in {"end", "error"} /\ arg = v
    \/ op \in {"server_error", "close"}

C24_SessionLifetime ==
    /\ \A v \in Viewers :
          Connected(clients, v) <=>
              \/ last.op = "login" /\ last.arg = v
              \/ Connected(last.clients, v) /\ ~Removes(last.op, last.arg, v)
    /\ \A i \in (last.mark + 1)..Len(wire) :
          wire[i].frame.name # "end" => Connected(clients, wire[i].to)

-----------------------------------------------------------------------------
(* C25: if writing a handshake frame to a joining viewer fails, that        *)
(* viewer's session is ended: it is not left in the connected set, it       *)
(* receives no later packet, and its later disconnect is still handled.     *)
(* A viewer whose handshake failed is one that joined and whose login       *)
(* reported client_login instead of registering its listeners.              *)
HandshakeFailed(v) == v \in joined /\ v \notin handlers

Left(v) == \E i \in DOMAIN events : events[i] = Event("viewer:leave", v, 0, 0)

C25_HandshakeFailureEndsSession ==
    \A v \in Viewers :
        HandshakeFailed(v) =>
            /\ ~Connected(clients, v)
            /\ \A i \in DOMAIN wire : wire[i].to = v => wire[i].frame.via = "handshake"
            /\ v \in ended => Left(v)

-----------------------------------------------------------------------------
(* C26: close() pauses the scheduler and disconnects every connected viewer *)
(* with reason "Server closing": right after close() playing is false, the  *)
(* connected set is empty and what close() wrote is one such notice to each *)
(* viewer that was connected; a tick that runs while playback is paused, as *)
(* one scheduled before close() does, writes nothing, and once the server   *)
(* is closed nobody is connected to be written to.                          *)
ClosingNotices(cs) ==
    [i \in DOMAIN cs |->
        [to |-> cs[i], frame |-> Frame("end", [reason |-> "Server closing"], "close")]]

C26_CloseStopsEverything ==
    /\ last.op = "close" =>
          /\ ~playing
          /\ clients = <<>>
          /\ SubSeq(wire, last.mark + 1, Len(wire))
                = ClosingNotices(SelectSeq(last.clients, LAMBDA v : <<v, "end">> \notin faulty))
    /\ (last.op = "tick" /\ ~last.wasPlaying) => Len(wire) = last.mark
    /\ server = "closed" => clients = <<>>

(* close() was called during playback with a viewer connected, and the tick *)
(* that was queued then has run.                                            *)
C26_Witness ==
    /\ last.op = "tick" /\ ~last.wasPlaying
    /\ server = "closed"
    /\ \E i \in DOMAIN wire : wire[i].frame.name = "end"
    /\ \E i \in DOMAIN events : events[i].name = "playback:pause"

-----------------------------------------------------------------------------
(* C27: a listener-level server error drops all viewers and is reported as  *)
(* server:error, but leaves the in-memory replay state unchanged: packet    *)
(* log, metadata, cursor, currentTime, speed and projection are after the   *)
(* error what they were before it; and a close() after it completes: it     *)
(* throws nothing and leaves the player paused with nobody connected.       *)
ServerFailed == \E i \in DOMAIN events : events[i].name = "server:error"

C27_ServerErrorKeepsReplay ==
    [][/\ last'.op = "server_error" =>
             /\ clients' = <<>>
             /\ events' = Append(events, Event("server:error", 0, 0, 0))
             /\ UNCHANGED <<packets, metadata, packetIndex, currentTime, playbackSpeed,
                            recentPackets, worldState, activeEntityIds, chunkMap>>
       /\ (last'.op = "close" /\ ServerFailed) =>
             /\ rejected' = ""
             /\ ~playing' /\ clients' = <<>>
             /\ server' = "closed" \/ errors' = Append(errors, <<"server_close", "">>)]_vars

(* The server failed during playback, with a viewer connected and records   *)
(* projected.                                                               *)
C27_Witness ==
    /\ last.op = "server_error"
    /\ last.wasPlaying
    /\ packetIndex > 0
    /\ recentPackets # <<>>
    /\ \E i \in DOMAIN wire : wire[i].frame.via = "server_error"

-----------------------------------------------------------------------------
(* C28: setPlaybackSpeed(s) emits a playback:speed event whose first        *)
(* argument is the speed in effect before the call and whose second         *)
(* argument is the speed in effect after the call, the clamped value.       *)
C28_SpeedEventOldNew ==
    [][last'.op = "speed" =>
          \E i \in (Len(events) + 1)..Len(events') :
              /\ events'[i].name = "playback:speed"
              /\ events'[i].a = playbackSpeed
              /\ events'[i].b = playbackSpeed']_vars

-----------------------------------------------------------------------------
(* C29: during playback a playback:progress notification is emitted once    *)
(* for every 100 packets consumed: a tick emits one for every multiple of   *)
(* 100 that the cursor reaches or passes in it, however many packets the    *)
(* tick consumes.                                                           *)
ProgressEvents(es) ==
    Cardinality({i \in DOMAIN es : es[i].name = "playback:progress"})

C29_ProgressEveryHundred ==
    [][last'.op = "tick" =>
          ProgressEvents(events') - ProgressEvents(events)
              = (packetIndex' \div ProgressEvery) - (packetIndex \div ProgressEvery)]_vars

-----------------------------------------------------------------------------
(* C30: after seekToTime(t), with t clamped to [0, endTime - startTime],    *)
(* the cursor equals the number of log records whose timestamp is <= t:     *)
(* the index of the first record past t, and N when no record is past t.    *)
C30_SeekCursor ==
    last.op = "seek" =>
        packetIndex = CountUpTo(packets, Clamp(0, MaxTime(State), last.arg) * SpeedScale)

-----------------------------------------------------------------------------
(* C31: in every reachable state of the player chunkByCoord, bulkChunkLog,  *)
(* namedLog and entityIds equal the result of applying exactly the records  *)
(* packets[0 .. cursor-1], each once and in order, to the empty projection. *)
WorldOf(s) ==
    [chunkByCoord |-> Projection(s).chunkByCoord,
     bulkChunkLog |-> Projection(s).bulkChunkLog,
     namedLog |-> Projection(s).namedLog,
     entityIds |-> Projection(s).entityIds]

C31_ProjectionIsPrefix ==
    WorldOf(State)
        = WorldOf(TrackAll(WithEmptyProjection(State), SubSeq(packets, 1, packetIndex)))

-----------------------------------------------------------------------------
(* The order inside a tick *)

(* The positions in steps of the steps of one kind on the packet at k.      *)
StepsOf(kind, k) == {i \in DOMAIN steps : steps[i].step = kind /\ steps[i].index = k}

(* C32: within a tick, each due packet is first emitted to all viewers,     *)
(* then applied to the projector, then the cursor is advanced; and a packet *)
(* is applied to the projection before the next packet is emitted.          *)
C32_EmitThenApply ==
    \A k \in 0..Len(packets) :
        /\ \A e \in StepsOf("emit", k), a \in StepsOf("apply", k) : e < a
        /\ \A a \in StepsOf("apply", k), c \in StepsOf("advance", k) : a < c
        /\ \A a \in StepsOf("apply", k), e \in StepsOf("emit", k + 1) : a < e

(* C32, amended: within a tick, each due packet is first applied to the     *)
(* projector, then emitted to all viewers, then the cursor is advanced;     *)
(* and a packet is applied to the projection before the next packet is      *)
(* emitted.  Every packet the loop passes is applied once, offered once to  *)
(* each connected viewer in the order of the connected set, and the packets *)
(* are taken in the order of the log.                                       *)
C32_ApplyThenEmit ==
    /\ \A k \in 0..Len(packets) :
          /\ \A a \in StepsOf("apply", k), e \in StepsOf("emit", k) : a < e
          /\ \A e \in StepsOf("emit", k), c \in StepsOf("advance", k) : e < c
          /\ \A a \in StepsOf("apply", k), c \in StepsOf("advance", k) : a < c
          /\ \A a \in StepsOf("apply", k), e \in StepsOf("emit", k + 1) : a < e
          /\ StepsOf("advance", k) # {} =>
                /\ Cardinality(StepsOf("apply", k)) = 1
                /\ Cardinality(StepsOf("advance", k)) = 1
          /\ StepsOf("emit", k) # {} => StepsOf("advance", k) # {}
    /\ \A i, j \in DOMAIN steps : i < j => steps[i].index <= steps[j].index
    /\ last.op = "tick" =>
          \A k \in last.index..(packetIndex - 1) :
              LET emits == SelectSeq(steps, LAMBDA x : x.step = "emit" /\ x.index = k)
              IN  [i \in DOMAIN emits |-> emits[i].to] = clients

(* A tick passed two packets with two viewers connected.                    *)
C32_Witness ==
    /\ last.op = "tick"
    /\ packetIndex >= last.index + 2
    /\ Len(clients) = 2
    /\ Cardinality(StepsOf("emit", last.index)) = 2
    /\ Cardinality(StepsOf("emit", last.index + 1)) = 2

-----------------------------------------------------------------------------
(* Pause and resume *)

(* The next state, as the record the handlers work on.                      *)
StateAfter ==
    [State EXCEPT !.now = now', !.startRealTime = startRealTime',
                  !.playbackSpeed = playbackSpeed', !.currentTime = currentTime']

PausedStays ==
    (~playing /\ ~playing' /\ last'.op # "seek") => currentTime' = currentTime

ResumesWhereItStood ==
    (last'.op = "start" /\ ~playing) =>
        /\ currentTime' = currentTime
        /\ RealElapsed(StateAfter) = currentTime

(* C33: pausePlayback at wall instant W snapshots currentTime to the        *)
(* virtual time at W, (W - wallAnchor) * speed; currentTime then stays      *)
(* constant while paused, and the next startPlayback sets the anchor so     *)
(* that playback resumes from exactly that value, no virtual time lost or   *)
(* gained.                                                                  *)
C33_PauseSnapshotsVirtualTime ==
    [][/\ (last'.op = "pause" /\ playing) => currentTime' = RealElapsed(State)
       /\ PausedStays
       /\ ResumesWhereItStood]_vars

-----------------------------------------------------------------------------
(* C34: pausePlayback cancels the tick loop: while playback is paused no    *)
(* live-tick packet is emitted to any viewer and the cursor and currentTime *)
(* do not change until startPlayback is called or a seek moves them, even   *)
(* if a tick was already scheduled before the pause: that tick, and every   *)
(* other step but a start and a seek, leaves playback paused where it was.  *)
LiveWritten(w) == Cardinality({i \in DOMAIN w : w[i].frame.via = "live"})

C34_PauseCancelsTicks ==
    [][(~playing /\ last'.op \notin {"start", "seek"}) =>
          /\ ~playing'
          /\ packetIndex' = packetIndex
          /\ currentTime' = currentTime
          /\ LiveWritten(wire') = LiveWritten(wire)]_vars

(* A tick scheduled during playback ran after pausePlayback, with a viewer  *)
(* connected and a record due by the wall clock.                            *)
C34_Witness ==
    /\ last.op = "tick" /\ ~last.wasPlaying
    /\ ~playing
    /\ clients # <<>>
    /\ packetIndex < Len(packets)
    /\ ~After(packets[packetIndex + 1], RealElapsed(State))
    /\ events[Len(events)].name = "playback:pause"

-----------------------------------------------------------------------------
(* C35: at any time at most one tick-loop continuation is scheduled: a      *)
(* pause immediately followed by a start before the previously scheduled    *)
(* tick has run, as setPlaybackSpeed and seekToTime do while playing, does  *)
(* not leave two live tick chains.                                          *)
C35_OneTickScheduled == pending <= 1

-----------------------------------------------------------------------------
(* C36: the entity-spawn records that a seek resync writes to a viewer are  *)
(* only for entities currently in entityIds: an entity whose entity_destroy *)
(* record has been applied is not spawned on the viewer, so after           *)
(* seekToTime the set of entities the viewer has been told to spawn and not *)
(* to destroy equals entityIds.                                             *)
RECURSIVE EntitiesTold(_, _)
EntitiesTold(frames, ids) ==
    IF frames = <<>> THEN ids
    ELSE LET f == Head(frames)
             ids1 == IF f.name \in SpawnNames THEN ids \cup f.data.entityId
                     ELSE IF f.name = "entity_destroy" THEN ids \ Range(f.data.entityIds)
                          ELSE IF f.name = "respawn" THEN {}
                               ELSE ids
         IN  EntitiesTold(Tail(frames), ids1)

C36_ResyncSpawnsLiveEntities ==
    last.op = "seek" =>
        \A v \in Range(clients) :
            /\ EntitiesTold(Sink(Appended, v), {}) = activeEntityIds
            /\ ~last.wasPlaying =>
                  \A i \in DOMAIN Sink(Appended, v) :
                      Sink(Appended, v)[i].name \in SpawnNames
                          => Sink(Appended, v)[i].data.entityId \subseteq activeEntityIds

-----------------------------------------------------------------------------
(* C37: whenever playing is true, every connected viewer has been sent,     *)
(* since its login or its last world clear, every record currently held in  *)
(* chunkByCoord, bulkChunkLog and namedLog; this includes a viewer who      *)
(* logged in while playback was paused at a position with cursor > 0 and    *)
(* then sees startPlayback.                                                 *)
SinceClear(frames) ==
    LET clears == {i \in DOMAIN frames : frames[i].name = "respawn"}
        from == IF clears = {} THEN 0
                ELSE CHOOSE i \in clears : \A j \in clears : j <= i
    IN  SubSeq(frames, from + 1, Len(frames))

HeldRecords(s) ==
    Range(MapValues(s.chunkMap)) \cup Range(s.worldState["map_chunk_bulk"])
        \cup UNION {Range(s.worldState[n]) : n \in StatePacketTypes}

C37_ViewersHoldProjection ==
    playing =>
        \A v \in Range(clients) :
            \A r \in HeldRecords(State) :
                \E i \in DOMAIN SinceClear(Sink(wire, v)) :
                    /\ SinceClear(Sink(wire, v))[i].name = r.name
                    /\ SinceClear(Sink(wire, v))[i].data = r.data

(* C38: while recording is true a writer and the metadata are attached, and *)
(* every packet admitted to this.packets is appended to that writer; a      *)
(* startRecording called after stopRecording and before its promise has     *)
(* settled does not leave the recording without its writer or metadata.     *)
Attached(r) == r.binaryWriter # 0 /\ r.replayMetadata # <<>>

Admitted(r, r2) == Len(r2.packets) > Len(r.packets)

C38_RecordingHasWriter ==
    [][/\ recorder'.recording => Attached(recorder')
       /\ Admitted(recorder, recorder') =>
             /\ recorder.binaryWriter # 0
             /\ recorder'.heap[recorder.binaryWriter].writer.packetCount
                    = recorder.heap[recorder.binaryWriter].writer.packetCount + 1]_vars

(* C39: the bytes of each recording are the header, then records, then the  *)
(* metadata block and its length exactly once and last.  close is called at *)
(* most once on a writer; once it was called, the output is what it was at  *)
(* that call followed by the block and its length, and reads back as a      *)
(* container of the records written; and when the recorder is stopped with  *)
(* no stopRecording suspended, every writer it made has been closed.        *)
MetadataBlock(m) ==
    Pack(MetadataTree(m)) \o U32LE(Len(Pack(MetadataTree(m))))

Stopped(r) == ~r.recording /\ r.awaiting = <<>>

C39_RecordingBytes ==
    \A i \in DOMAIN recorder.heap :
        LET held == recorder.heap[i]
            out == Output(held.writer)
        IN  /\ StartsWith(out, MAGIC \o <<VERSION>>)
            /\ Len(held.closes) <= 1
            /\ held.closes # <<>> =>
                  /\ out = SubSeq(out, 1, held.closes[1].at)
                              \o MetadataBlock(held.closes[1].meta)
                  /\ Reader_read(out, 0).status = "ok"
                  /\ Len(Reader_read(out, 0).packets) = held.writer.packetCount
            /\ Stopped(recorder) => held.closes # <<>>

(* C40: 0 <= cursor <= N in every state; the cursor increases only by one   *)
(* per packet consumed in a tick, is otherwise changed only by seekToTime,  *)
(* and is never changed by start, pause, setPlaybackSpeed, viewer join or   *)
(* viewer disconnect.                                                       *)
Advances(ss) == Cardinality({i \in DOMAIN ss : ss[i].step = "advance"})

=============================================================================
